---- MODULE Spec2Model ----
(***************************************************************************)
(* Dione OS - Field Notes Edition: the IndexedDB abstraction layer db.js   *)
(* (src/unnamed/part_000) as a state machine.                              *)
(*                                                                         *)
(* The committed contents of the two object stores, the cached connection  *)
(* handle _db, the transactions the engine holds (in creation order, each  *)
(* with its queued requests) and the position of every caller's call are   *)
(* the state.  One action per step of the code: the synchronous part of a  *)
(* call, the success of an open request, the continuation that creates a   *)
(* transaction and queues its requests, the engine executing one request   *)
(* (and running its onsuccess / onerror handler), the engine committing or *)
(* aborting a transaction (and running oncomplete).                        *)
(***************************************************************************)
EXTENDS Integers, Sequences, FiniteSets, TLC

\* ------------------------------------------------------------ bounds
\* Calls issued in one behaviour, and engine failures injected in one.
MaxCalls == 2
MaxFaults == 1
\* Fetch events handled by the service workers in one behaviour.
MaxFetches == 2
\* Milliseconds the clock of the application runs through.
MaxClock == 2

\* ------------------------------------------------------------ values
STORE_ENTRIES == "entries"
STORE_PROJECTS == "projects"
StoreNames == {STORE_ENTRIES, STORE_PROJECTS}

\* JS null and undefined.
Null == "null"
Undefined == "undefined"

EntryIds == {"e1", "e2"}
ProjectIds == {"p1"}
Times == {1, 2}

Range(seq) == {seq[i] : i \in 1..Len(seq)}

\* The default folders of seedDefaultProjects, by name.
defaults == <<"Lota Kopi", "Cucufate", "CLI Work", "Espresso Experiments", "Travel">>

\* `project-${now}-${i}`
SeedId(now, i) == "project-" \o ToString(now) \o "-" \o ToString(i)

\* The object seedDefaultProjects saves for defaults[i] (i from 0) at time now.
DefaultProject(now, i) ==
    [id |-> SeedId(now, i), name |-> defaults[i + 1],
     createdAt |-> now - i * 1000, updatedAt |-> now - i * 1000]

SeedKeys(now) == [k \in 1..Len(defaults) |-> SeedId(now, k - 1)]

\* Keys in the engine's key order (ascending), per store.
KeyOrder(s) ==
    IF s = STORE_ENTRIES THEN <<"e1", "e2", "e3">>
    ELSE <<"p1", "p2">> \o SeedKeys(1) \o SeedKeys(2)

\* Entry objects: id, createdAt and, for an entry filed under a project, its
\* projectId.  An entry with projectId null and one without the field are one
\* case here: neither value is a valid key, so the projectId index holds no
\* record for the entry, and db.js never reads the field itself.
Entries ==
    [id : EntryIds, createdAt : Times, projectId : ProjectIds]
        \cup [id : EntryIds, createdAt : Times]

\* Project objects: id, createdAt.
Projects == [id : ProjectIds, createdAt : Times]

\* An object without the key path 'id': the engine refuses to store it.
NoIdEntry == [createdAt |-> 1]
NoIdProject == [createdAt |-> 2]

\* The key path 'id' of both stores (createObjectStore(..., {keyPath: 'id'})).
HasKey(r) == "id" \in DOMAIN r

\* ------------------------------------------------------------ object stores
\* An object store is a function from the keys present to the stored objects.
EmptyDB == [s \in StoreNames |-> [k \in {} |-> Null]]

\* A put that merges field by field: fields the new object lacks survive.
StorePutMerge(st, r) ==
    [k \in DOMAIN st \cup {r.id} |->
        IF k # r.id THEN st[k]
        ELSE IF k \notin DOMAIN st THEN r
        ELSE [f \in DOMAIN st[k] \cup DOMAIN r |-> IF f \in DOMAIN r THEN r[f] ELSE st[k][f]]]

\* A replace written as delete-then-insert whose insert is lost when the key
\* was present.
StorePutEvicts(st, r) ==
    IF r.id \in DOMAIN st THEN [j \in DOMAIN st \ {r.id} |-> st[j]]
    ELSE [k \in DOMAIN st \cup {r.id} |-> IF k = r.id THEN r ELSE st[k]]

\* store.put(r): upsert by primary key, the whole object replaces the old one.
StorePut(st, r) == [k \in DOMAIN st \cup {r.id} |-> IF k = r.id THEN r ELSE st[k]]

\* store.delete(k): no-op when absent.
StoreDelete(st, k) == [j \in DOMAIN st \ {k} |-> st[j]]

\* store.get(k): the object, or undefined.
StoreGet(st, k) == IF k \in DOMAIN st THEN st[k] ELSE Undefined

RECURSIVE KeysIn(_, _)
\* The keys of `keys` (a sequence in key order) that are in the set d.
KeysIn(keys, d) ==
    IF keys = <<>> THEN <<>>
    ELSE IF Head(keys) \in d THEN <<Head(keys)>> \o KeysIn(Tail(keys), d)
         ELSE KeysIn(Tail(keys), d)

\* store.getAll(): every object, in key order.
StoreGetAll(st, s) == [i \in 1..Cardinality(DOMAIN st) |-> st[KeysIn(KeyOrder(s), DOMAIN st)[i]]]

RECURSIVE SelectProject(_, _)
SelectProject(recs, p) ==
    IF recs = <<>> THEN <<>>
    ELSE IF "projectId" \in DOMAIN Head(recs) /\ Head(recs).projectId = p
         THEN <<Head(recs)>> \o SelectProject(Tail(recs), p)
         ELSE SelectProject(Tail(recs), p)

\* index('projectId').getAll(IDBKeyRange.only(p)) on the entries store.
IndexGetAll(st, p) == SelectProject(StoreGetAll(st, STORE_ENTRIES), p)

RECURSIVE InsertDesc(_, _)
\* r inserted into a sequence sorted by createdAt descending, after its ties.
InsertDesc(sorted, r) ==
    IF sorted = <<>> THEN <<r>>
    ELSE IF Head(sorted).createdAt >= r.createdAt
         THEN <<Head(sorted)>> \o InsertDesc(Tail(sorted), r)
         ELSE <<r>> \o sorted

\* A sort that leaves the array in the engine's key order.
SortKeepsKeyOrder(recs) == recs

RECURSIVE SortDesc(_)
\* arr.sort((a, b) => b.createdAt - a.createdAt): stable, createdAt descending.
SortDesc(recs) ==
    IF recs = <<>> THEN <<>>
    ELSE InsertDesc(SortDesc(SubSeq(recs, 1, Len(recs) - 1)), recs[Len(recs)])

\* ------------------------------------------------------------ state
Procs == {"a", "b"}
NoOwner == "none"

\* `let _db = null`: handle 0 is null, handle h > 0 is the h-th connection opened.
NoDb == 0

VARIABLES
    stores,     \* committed contents: store name -> object store
    _db,        \* the cached connection handle
    conns,      \* connections opened so far
    open,       \* the connections that are open
    notified,   \* the connections a versionchange event was fired at
    txs,        \* live transactions, in creation order
    call,       \* caller -> its current call
    calls,      \* calls issued so far
    faults,     \* engine failures injected so far
    rt,         \* a backup taken from one database and imported into an empty one
    qry,        \* a query run on one database
    caches,     \* CacheStorage: the caches, in creation order
    made,       \* caches created so far
    sw,         \* version -> the service worker of that version
    fetches,    \* the fetch events handled, in the order dispatched
    ui          \* the application: the view, the editors, the clock

\* The state of db.js.
dbVars == <<stores, _db, conns, open, notified, txs, call, calls, faults>>

\* The state of the service workers.
swVars == <<caches, made, sw, fetches>>

vars == <<dbVars, rt, qry, swVars, ui>>

NoRes == [kind |-> "none", val |-> Null]
Res(k, v) == [kind |-> k, val |-> v]

NoPrev == [op |-> "none", arg |-> Null]

\* A caller that has issued nothing yet.  Besides the call's own locals, a
\* call remembers the contents committed when it was issued (pre), whether no
\* transaction was live then (quiet), and the write (a save or an import) the
\* caller made just before it and saw resolve (prev).  fresh: the caller has
\* called nothing but seedDefaultProjects, first on a store without projects.
IdleCall == [op |-> "none", arg |-> Null, pc |-> "idle", phase |-> 0,
             opening |-> <<>>, todo |-> {}, got |-> {},
             out |-> "none", res |-> NoRes,
             ents |-> <<>>, projs |-> <<>>,
             pre |-> EmptyDB, quiet |-> TRUE, prev |-> NoPrev,
             now |-> 0, fresh |-> FALSE]

Req(o, s, a) == [op |-> o, store |-> s, arg |-> a]

\* db.transaction(scope, mode) with the requests queued on it synchronously.
Tx(owner, kind, scope, mode, reqs) ==
    [owner |-> owner, kind |-> kind, scope |-> scope, mode |-> mode, reqs |-> reqs, n |-> 0]

IsWrite(req) == req.op \in {"put", "delete"}

\* ------------------------------------------------------------ openDB
\* openDB(), called for each of `parts` (the continuations waiting on it): with
\* a cached handle the promise is already resolved and the continuations are
\* queued; without one an open request is issued per call.
OpenDB(c, parts) ==
    IF _db # NoDb THEN [c EXCEPT !.todo = {parts[i] : i \in 1..Len(parts)}]
    ELSE [c EXCEPT !.opening = parts]

\* request.onsuccess of indexedDB.open: the handle is cached and the promise
\* resolved; the continuation of that openDB() call is queued.
OpenSuccess(p) ==
    /\ call[p].pc = "run"
    /\ call[p].opening # <<>>
    /\ conns' = conns + 1
    /\ _db' = conns + 1
    /\ open' = open \cup {conns + 1}
    /\ call' = [call EXCEPT ![p].opening = Tail(@),
                            ![p].todo = @ \cup {Head(call[p].opening)}]
    /\ UNCHANGED <<stores, txs, calls, faults, notified>>

\* The database is about to be upgraded or deleted elsewhere (another tab): a
\* versionchange event is fired at the open connection h, whose handler is
\* `_db.close(); _db = null` - on the variable _db, whichever connection it
\* holds when the event arrives.  With _db null the handler throws a TypeError
\* and closes nothing.  Events are tasks: none runs while a continuation of
\* openDB() is still queued as a microtask.
VersionChange(h) ==
    /\ h \in open
    /\ h \notin notified
    /\ \A p \in Procs : call[p].todo = {}
    /\ notified' = notified \cup {h}
    /\ IF _db # NoDb
       THEN /\ open' = open \ {_db}
            /\ _db' = NoDb
       ELSE UNCHANGED <<open, _db>>
    /\ UNCHANGED <<stores, conns, txs, call, calls, faults>>

\* ------------------------------------------------------------ calls
CanCall(p) == call[p].pc \in {"idle", "done"} /\ calls < MaxCalls

NewCall(p) ==
    [IdleCall EXCEPT !.phase = 1, !.pre = stores, !.quiet = (txs = <<>>),
                     !.prev = IF /\ call[p].out = "resolved"
                                 /\ call[p].op \in {"saveEntry", "saveProject", "importData"}
                              THEN [op |-> call[p].op, arg |-> call[p].arg]
                              ELSE NoPrev]

\* The synchronous part of a call that starts with openDB().
Begin(p, op, arg, parts) ==
    /\ CanCall(p)
    /\ call' = [call EXCEPT ![p] =
                  OpenDB([NewCall(p) EXCEPT
                            !.op = op, !.arg = arg, !.pc = "run",
                            !.fresh = /\ op = "seedDefaultProjects"
                                      /\ IF call[p].op = "none"
                                         THEN DOMAIN stores[STORE_PROJECTS] = {}
                                         ELSE call[p].fresh],
                         parts)]
    /\ calls' = calls + 1
    /\ UNCHANGED <<stores, _db, conns, open, notified, txs, faults>>

saveEntry(p, entry) == Begin(p, "saveEntry", entry, <<"op">>)
getEntry(p, id) == Begin(p, "getEntry", id, <<"op">>)
deleteEntry(p, id) == Begin(p, "deleteEntry", id, <<"op">>)
saveProject(p, project) == Begin(p, "saveProject", project, <<"op">>)
getProject(p, id) == Begin(p, "getProject", id, <<"op">>)

\* deleteProject starts with getEntriesByProject(projectId).
deleteProject(p, projectId) == Begin(p, "deleteProject", projectId, <<"op">>)

\* exportData: Promise.all([getAllEntries(), getAllProjects()]), each of which
\* calls openDB() synchronously.
exportData(p) == Begin(p, "exportData", Null, <<STORE_ENTRIES, STORE_PROJECTS>>)

\* seedDefaultProjects starts with getAllProjects().
seedDefaultProjects(p) == Begin(p, "seedDefaultProjects", Null, <<"op">>)

\* A backup object as importData receives it: absent (null / undefined), or an
\* object whose entries and projects fields are each an array or something else.
ArrayOf(items) == [isArray |-> TRUE, items |-> items]
NotArray == [isArray |-> FALSE, items |-> <<>>]
Backup(es, ps) == [present |-> TRUE, entries |-> es, projects |-> ps]
NoBackup == [present |-> FALSE, entries |-> NotArray, projects |-> NotArray]

\* The format test forgetting the projects field.
ValidFormatEntriesOnly(data) ==
    /\ data.present
    /\ data.entries.isArray

\* The backup-format test of importData:
\* !data || !Array.isArray(data.entries) || !Array.isArray(data.projects) throws.
ValidFormat(data) ==
    /\ data.present
    /\ data.entries.isArray
    /\ data.projects.isArray

\* importData: an invalid format throws before openDB() is reached.
importData(p, data) ==
    IF ValidFormat(data) THEN Begin(p, "importData", data, <<"op">>)
    ELSE /\ CanCall(p)
         /\ call' = [call EXCEPT ![p] =
                       [NewCall(p) EXCEPT !.op = "importData", !.arg = data, !.pc = "done",
                                          !.out = "rejected",
                                          !.res = Res("error", "Invalid backup format")]]
         /\ calls' = calls + 1
         /\ UNCHANGED <<stores, _db, conns, open, notified, txs, faults>>

\* ------------------------------------------------------------ transactions
StoreOf(op) == IF op \in {"saveProject", "getProject"} THEN STORE_PROJECTS ELSE STORE_ENTRIES

\* An import that restores: it empties both stores before it writes.
ImportPutsReplacing(data) ==
    <<Req("delete", STORE_ENTRIES, "e1"), Req("delete", STORE_ENTRIES, "e2"),
      Req("delete", STORE_PROJECTS, "p1")>>
    \o [i \in 1..Len(data.projects.items) |-> Req("put", STORE_PROJECTS, data.projects.items[i])]
    \o [i \in 1..Len(data.entries.items) |-> Req("put", STORE_ENTRIES, data.entries.items[i])]

\* An import that forgets the projects.
ImportPutsEntriesOnly(data) ==
    [i \in 1..Len(data.entries.items) |-> Req("put", STORE_ENTRIES, data.entries.items[i])]

\* The put requests importData queues: every project, then every entry.
ImportPuts(data) ==
    [i \in 1..Len(data.projects.items) |-> Req("put", STORE_PROJECTS, data.projects.items[i])]
    \o [i \in 1..Len(data.entries.items) |-> Req("put", STORE_ENTRIES, data.entries.items[i])]

\* deleteProject sweeping every entry id, read or not.
CascadeDeletesEveryEntry(entries, projectId) ==
    <<Req("delete", STORE_ENTRIES, "e1"), Req("delete", STORE_ENTRIES, "e2"),
      Req("delete", STORE_PROJECTS, projectId)>>

\* deleteProject forgetting the entries it read.
CascadeDeletesProjectOnly(entries, projectId) ==
    <<Req("delete", STORE_PROJECTS, projectId)>>

\* The delete requests deleteProject queues: every entry read, then the project.
CascadeDeletes(entries, projectId) ==
    [i \in 1..Len(entries) |-> Req("delete", STORE_ENTRIES, entries[i].id)]
    \o <<Req("delete", STORE_PROJECTS, projectId)>>

\* deleteProject deleting each entry in a transaction of its own (as a loop
\* over deleteEntry would), and the project in a last one.
CascadeTxsSplit(p, c) ==
    [i \in 1..Len(c.ents) |->
        Tx(NoOwner, "multi", {STORE_ENTRIES}, "readwrite",
           <<Req("delete", STORE_ENTRIES, c.ents[i].id)>>)]
    \o <<Tx(p, "multi", {STORE_PROJECTS}, "readwrite",
            <<Req("delete", STORE_PROJECTS, c.arg)>>)>>

\* The transaction of deleteProject: one transaction over both stores with
\* every delete queued on it, owned by the call (tx.oncomplete / tx.onerror).
CascadeTxs(p, c) ==
    <<Tx(p, "multi", StoreNames, "readwrite", CascadeDeletes(c.ents, c.arg))>>

\* store.put(value) throws DataError synchronously when the key path yields no
\* key: the requests queued before the throw stay queued.
QueuedBeforeThrow(reqs) ==
    LET bad == {i \in 1..Len(reqs) : reqs[i].op = "put" /\ ~HasKey(reqs[i].arg)}
    IN  IF bad = {} THEN reqs
        ELSE SubSeq(reqs, 1, (CHOOSE i \in bad : \A j \in bad : i <= j) - 1)

Throws(reqs) == \E i \in 1..Len(reqs) : reqs[i].op = "put" /\ ~HasKey(reqs[i].arg)

Rejected(c, err) == [c EXCEPT !.pc = "done", !.out = "rejected", !.res = Res("error", err),
                              !.todo = {}]
Resolved(c, res) == [c EXCEPT !.pc = "done", !.out = "resolved", !.res = res, !.todo = {}]

\* withStore(storeName, mode, operation): one transaction on one store carrying
\* the one request operation(store) returns; the promise settles on the
\* request's onsuccess / onerror.
withStore(p, c, mode, req) ==
    IF req.op = "put" /\ ~HasKey(req.arg)
    THEN /\ call' = [call EXCEPT ![p] = Rejected(c, "DataError")]
         /\ txs' = txs
    ELSE /\ call' = [call EXCEPT ![p] = c]
         /\ txs' = Append(txs, Tx(p, "single", {req.store}, mode, <<req>>))

\* The saveProject calls of seedDefaultProjects run in the order of defaults;
\* the two reads of exportData are not ordered here.
PartOrder(part) ==
    IF \E i \in 1..Len(defaults) : defaults[i] = part
    THEN CHOOSE i \in 1..Len(defaults) : defaults[i] = part
    ELSE 0

\* The continuation of openDB() in each operation: the transaction is created
\* and its requests are queued, all synchronously.
CreateTx(p) ==
    \E part \in call[p].todo :
      LET c == [call[p] EXCEPT !.todo = @ \ {part}] IN
      /\ call[p].pc = "run"
      /\ \A other \in call[p].todo : PartOrder(part) <= PartOrder(other)
      /\ CASE c.op \in {"saveEntry", "saveProject"} ->
                withStore(p, c, "readwrite", Req("put", StoreOf(c.op), c.arg))
           [] c.op \in {"getEntry", "getProject"} ->
                withStore(p, c, "readonly", Req("get", StoreOf(c.op), c.arg))
           [] c.op = "deleteEntry" ->
                withStore(p, c, "readwrite", Req("delete", STORE_ENTRIES, c.arg))
           [] c.op = "exportData" ->
                withStore(p, c, "readonly", Req("getAll", part, Null))
           [] c.op = "deleteProject" /\ c.phase = 1 ->
                withStore(p, c, "readonly", Req("indexGetAll", STORE_ENTRIES, c.arg))
           [] c.op = "deleteProject" /\ c.phase = 2 ->
                /\ call' = [call EXCEPT ![p] = c]
                /\ txs' = txs \o CascadeTxs(p, c)
           [] c.op = "seedDefaultProjects" /\ c.phase = 1 ->
                withStore(p, c, "readonly", Req("getAll", STORE_PROJECTS, Null))
           [] c.op = "seedDefaultProjects" /\ c.phase = 2 ->
                withStore(p, c, "readwrite",
                          Req("put", STORE_PROJECTS, DefaultProject(c.now, PartOrder(part) - 1)))
           [] c.op = "importData" ->
                IF Throws(ImportPuts(c.arg))
                THEN /\ call' = [call EXCEPT ![p] = Rejected(c, "DataError")]
                     /\ txs' = Append(txs, Tx(NoOwner, "multi", StoreNames, "readwrite",
                                              QueuedBeforeThrow(ImportPuts(c.arg))))
                ELSE /\ call' = [call EXCEPT ![p] = c]
                     /\ txs' = Append(txs, Tx(p, "multi", StoreNames, "readwrite",
                                              ImportPuts(c.arg)))
      /\ UNCHANGED <<stores, _db, conns, open, notified, calls, faults>>

\* ------------------------------------------------------------ the engine
\* A transaction runs once no transaction created before it, with an
\* overlapping scope, is live - unless both only read.
CanRun(i) ==
    \A j \in 1..(i - 1) :
        \/ txs[j].scope \cap txs[i].scope = {}
        \/ txs[j].mode = "readonly" /\ txs[i].mode = "readonly"

Remove(seq, i) == SubSeq(seq, 1, i - 1) \o SubSeq(seq, i + 1, Len(seq))

ApplyReq(db, req) ==
    CASE req.op = "put" -> [db EXCEPT ![req.store] = StorePut(@, req.arg)]
      [] req.op = "delete" -> [db EXCEPT ![req.store] = StoreDelete(@, req.arg)]
      [] OTHER -> db

RECURSIVE ApplyAll(_, _)
\* The contents after the requests of a transaction, in the order queued.
ApplyAll(db, reqs) ==
    IF reqs = <<>> THEN db ELSE ApplyAll(ApplyReq(db, Head(reqs)), Tail(reqs))

\* request.result of a request executed on contents db.
ResultOf(db, req) ==
    CASE req.op = "put" -> Res("key", req.arg.id)
      [] req.op = "delete" -> Res("undefined", Undefined)
      [] req.op = "get" ->
            IF req.arg \in DOMAIN db[req.store]
            THEN Res("object", StoreGet(db[req.store], req.arg))
            ELSE Res("undefined", Undefined)
      [] req.op = "getAll" -> Res("array", StoreGetAll(db[req.store], req.store))
      [] req.op = "indexGetAll" -> Res("array", IndexGetAll(db[req.store], req.arg))

\* exportData destructuring the two results in the wrong order.
SnapshotSwapped(c, t) ==
    [version |-> 1, exportedAt |-> t, entries |-> c.projs, projects |-> c.ents]

\* The object exportData resolves with; Date.now() is t.
Snapshot(c, t) == [version |-> 1, exportedAt |-> t, entries |-> c.ents, projects |-> c.projs]

\* request.onsuccess of a withStore / index request and the .then that follows.
OnSuccess(c, req, res, t) ==
    CASE c.op \in {"saveEntry", "saveProject", "getEntry", "getProject", "deleteEntry"} ->
            Resolved(c, res)
      [] c.op = "exportData" ->
            LET c1 == IF req.store = STORE_ENTRIES
                      THEN [c EXCEPT !.ents = SortDesc(res.val), !.got = @ \cup {req.store}]
                      ELSE [c EXCEPT !.projs = SortDesc(res.val), !.got = @ \cup {req.store}]
            IN  IF c1.got = StoreNames THEN Resolved(c1, Res("snapshot", Snapshot(c1, t)))
                ELSE c1
      [] c.op = "deleteProject" ->
            OpenDB([c EXCEPT !.ents = SortDesc(res.val), !.phase = 2], <<"cascade">>)
      [] c.op = "seedDefaultProjects" /\ c.phase = 1 ->
            IF Len(SortDesc(res.val)) > 0
            THEN Resolved([c EXCEPT !.projs = SortDesc(res.val)], Res("undefined", Undefined))
            ELSE OpenDB([c EXCEPT !.phase = 2, !.now = t], defaults)
      [] c.op = "seedDefaultProjects" /\ c.phase = 2 ->
            LET c1 == [c EXCEPT !.got = @ \cup {req.arg.id}]
            IN  IF c1.got = Range(SeedKeys(c.now))
                THEN Resolved(c1, Res("undefined", Undefined))
                ELSE c1

\* The engine executes the next request of a running transaction, and the
\* request succeeds.  A read-only transaction whose requests are all done
\* completes with nothing to write.
ExecRequest(i) ==
    LET tx == txs[i]
        req == tx.reqs[tx.n + 1]
    IN  /\ CanRun(i)
        /\ tx.n < Len(tx.reqs)
        /\ IF tx.kind = "single" /\ tx.owner # NoOwner
           THEN /\ \E t \in Times :
                     call' = [call EXCEPT ![tx.owner] =
                                OnSuccess(@, req, ResultOf(stores, req), t)]
                /\ txs' = IF tx.mode = "readonly" THEN Remove(txs, i)
                          ELSE [txs EXCEPT ![i].n = @ + 1, ![i].owner = NoOwner]
           ELSE /\ txs' = [txs EXCEPT ![i].n = @ + 1]
                /\ call' = call
        /\ UNCHANGED <<stores, _db, conns, open, notified, calls, faults>>

\* The transactions of a promise that has been settled go on without it.
Disown(T, p) == [j \in 1..Len(T) |-> IF T[j].owner = p THEN [T[j] EXCEPT !.owner = NoOwner] ELSE T[j]]

\* The engine fails a write request (quota, I/O): the error event reaches
\* request.onerror, bubbles to tx.onerror - where tx.error is still null - and,
\* not being prevented, aborts the transaction.
RequestError(i) ==
    LET tx == txs[i] IN
    /\ faults < MaxFaults
    /\ CanRun(i)
    /\ tx.n < Len(tx.reqs)
    /\ IsWrite(tx.reqs[tx.n + 1])
    /\ faults' = faults + 1
    /\ txs' = Disown(Remove(txs, i), tx.owner)
    /\ call' = IF tx.owner = NoOwner THEN call
               ELSE IF tx.kind = "single"
                    THEN [call EXCEPT ![tx.owner] = Rejected(@, "QuotaExceededError")]
                    ELSE [call EXCEPT ![tx.owner] = Rejected(@, Null)]
    /\ UNCHANGED <<stores, _db, conns, open, notified, calls>>

\* All requests done: the transaction commits, its writes become the contents
\* of the stores at once, and tx.oncomplete runs.
Commit(i) ==
    LET tx == txs[i] IN
    /\ CanRun(i)
    /\ tx.n = Len(tx.reqs)
    /\ stores' = ApplyAll(stores, tx.reqs)
    /\ txs' = Remove(txs, i)
    /\ call' = IF tx.kind = "multi" /\ tx.owner # NoOwner
               THEN [call EXCEPT ![tx.owner] = Resolved(@, Res("undefined", Undefined))]
               ELSE call
    /\ UNCHANGED <<_db, conns, open, notified, calls, faults>>

\* The commit fails (quota, I/O): the transaction aborts and only an abort
\* event is fired, which no handler of db.js listens to.  A promise waiting
\* for oncomplete / onerror is never settled.
CommitError(i) ==
    LET tx == txs[i] IN
    /\ faults < MaxFaults
    /\ CanRun(i)
    /\ tx.mode = "readwrite"
    /\ tx.reqs # <<>>
    /\ tx.n = Len(tx.reqs)
    /\ faults' = faults + 1
    /\ txs' = Remove(txs, i)
    /\ call' = IF tx.kind = "multi" /\ tx.owner # NoOwner
               THEN [call EXCEPT ![tx.owner].pc = "hung"]
               ELSE call
    /\ UNCHANGED <<stores, _db, conns, open, notified, calls>>

\* ------------------------------------------------------------ inputs
\* Every content an object store can have: any subset of the keys, each with
\* an object carrying that key (put accepts any object with a valid key).
StoresOver(ids, recs) ==
    {st \in UNION {[d -> recs] : d \in SUBSET ids} : \A k \in DOMAIN st : st[k].id = k}

Databases ==
    {[s \in StoreNames |-> IF s = STORE_ENTRIES THEN es ELSE ps] :
        es \in StoresOver(EntryIds, Entries), ps \in StoresOver(ProjectIds, Projects)}

\* Objects passed to the calls and carried by backups.
E1 == [id |-> "e1", createdAt |-> 2, projectId |-> "p1"]
E2 == [id |-> "e2", createdAt |-> 1]
P1 == [id |-> "p1", createdAt |-> 1]
E1b == [id |-> "e1", createdAt |-> 1]
E2p == [id |-> "e2", createdAt |-> 2, projectId |-> "p1"]

\* Backups: absent, ill-formed, empty, complete, with an object the engine
\* refuses (after, or before, objects it accepts), and with one id twice.
Backups ==
    {NoBackup,
     Backup(NotArray, ArrayOf(<<>>)),
     Backup(ArrayOf(<<>>), NotArray),
     Backup(ArrayOf(<<>>), ArrayOf(<<>>)),
     Backup(ArrayOf(<<E1, E2>>), ArrayOf(<<P1>>)),
     Backup(ArrayOf(<<E1, NoIdEntry>>), ArrayOf(<<P1>>)),
     Backup(ArrayOf(<<NoIdEntry, E1>>), ArrayOf(<<>>)),
     Backup(ArrayOf(<<E1b, E1>>), ArrayOf(<<>>)),
     Backup(ArrayOf(<<E2>>), ArrayOf(<<P1, NoIdProject>>))}

\* The contents a behaviour starts from: built from the objects above (the
\* calls then lead to the others).
InitDatabases ==
    {db \in Databases :
        /\ \A k \in DOMAIN db[STORE_ENTRIES] : db[STORE_ENTRIES][k] \in {E1, E2, E2p}
        /\ \A k \in DOMAIN db[STORE_PROJECTS] : db[STORE_PROJECTS][k] = P1}

\* ------------------------------------------------------------ service worker
\* The two service workers of the repository: dione-os-v1
\* (src/service-worker.js) and dione-os-v2 (src/unnamed/part_000).
Versions == {"v1", "v2"}

CACHE_NAME(v) == IF v = "v1" THEN "dione-os-v1" ELSE "dione-os-v2"

\* The worker is served from the root of its origin.
BASE_PATH == "/"

ShellUrl == BASE_PATH \o "index.html"
IconUrl == "/favicon.ico"
FontUrl == "https://fonts.googleapis.com/css2"
CdnUrl == "https://cdn.example/lib.js"
ExtensionUrl == "chrome-extension://abc/page.js"

Urls == {BASE_PATH, ShellUrl, BASE_PATH \o "styles.css", IconUrl, FontUrl, CdnUrl, ExtensionUrl}

\* new URL(request.url): protocol, hostname, origin.
Protocol(url) == IF url = ExtensionUrl THEN "chrome-extension:" ELSE "https:"
Hostname(url) ==
    CASE url = FontUrl -> "fonts.googleapis.com"
      [] url = CdnUrl -> "cdn.example"
      [] url = ExtensionUrl -> "abc"
      [] OTHER -> "app.example"
Origin(url) == Protocol(url) \o "//" \o Hostname(url)
SW_URL == BASE_PATH \o "service-worker.js"

\* protocol.startsWith('http'), hostname.includes('fonts.g'),
\* url.startsWith('https://') on the values above.
StartsWithHttp(protocol) == protocol \in {"http:", "https:"}
IncludesFontsG(hostname) == hostname \in {"fonts.googleapis.com", "fonts.gstatic.com"}
StartsWithHttps(url) == url \in {FontUrl, CdnUrl}

\* The assets pre-cached on install.  styles.css stands for the shell files
\* after index.html (app.js, db.js, manifest.json, the icons), which the
\* handlers treat alike.
PRECACHE_ASSETS(v) ==
    IF v = "v1" THEN <<"/", "/index.html", "/styles.css", FontUrl>>
    ELSE <<BASE_PATH, BASE_PATH \o "index.html", BASE_PATH \o "styles.css">>

Request(method, url) == [method |-> method, url |-> url]

\* Responses: what the network answers (ok with some content, or an HTTP
\* error), and what the worker synthesizes.
Response(body, status) == [status |-> status, body |-> body]
NoResponse == Response("", 0)
NetworkOk == {Response(b, 200) : b \in {"b1", "b2"}}
NetworkError == {Response("not found", 404)}
\* What the network serves while a worker is being installed.
Precached == Response("b1", 200)
IsOk(response) == response.status >= 200 /\ response.status <= 299

\* A cache: its name, its identity, and its entries by request URL.
Cache(name, id, items) == [name |-> name, id |-> id, items |-> items]
NoHandle == 0

Names(cs) == {cs[j].name : j \in 1..Len(cs)}
Named(cs, name) == cs[CHOOSE j \in 1..Len(cs) : cs[j].name = name]

\* A lookup that finds nothing.
CachesMatchNothing(cs, url) == NoResponse

\* caches.match(request): the first match, going through the caches in
\* creation order; undefined when there is none.
CachesMatch(cs, url) ==
    LET hits == {j \in 1..Len(cs) : url \in DOMAIN cs[j].items} IN
    IF hits = {} THEN NoResponse
    ELSE cs[CHOOSE j \in hits : \A k \in hits : j <= k].items[url]

\* caches.open(name): the cache of that name, created when there is none.
CachesOpen(cs, name, id) ==
    IF name \in Names(cs) THEN cs ELSE Append(cs, Cache(name, id, [u \in {} |-> NoResponse]))

\* A put that keeps the cache to one entry, dropping the others.
CachePutEvicting(cs, id, url, response) ==
    [j \in 1..Len(cs) |->
        IF cs[j].id = id THEN [cs[j] EXCEPT !.items = [u \in {url} |-> response]]
        ELSE cs[j]]

\* A put that leaves an entry already there as it is.
CachePutIfAbsent(cs, id, url, response) ==
    [j \in 1..Len(cs) |->
        IF cs[j].id = id
        THEN [cs[j] EXCEPT !.items =
                [u \in DOMAIN cs[j].items \cup {url} |->
                    IF u \in DOMAIN cs[j].items THEN cs[j].items[u] ELSE response]]
        ELSE cs[j]]

\* cache.put(request, response) on the cache of a handle: the entry of that
\* URL is set.  A cache deleted from the storage is written to no more.
CachePut(cs, id, url, response) ==
    [j \in 1..Len(cs) |->
        IF cs[j].id = id
        THEN [cs[j] EXCEPT !.items =
                [u \in DOMAIN cs[j].items \cup {url} |->
                    IF u = url THEN response ELSE cs[j].items[u]]]
        ELSE cs[j]]

RECURSIVE CachePutAll(_, _, _, _)
CachePutAll(cs, id, urls, response) ==
    IF urls = <<>> THEN cs
    ELSE CachePutAll(CachePut(cs, id, Head(urls), response), id, Tail(urls), response)

RECURSIVE CachesDelete(_, _)
\* caches.delete(name)
CachesDelete(cs, name) ==
    IF cs = <<>> THEN <<>>
    ELSE IF Head(cs).name = name THEN Tail(cs)
    ELSE <<Head(cs)>> \o CachesDelete(Tail(cs), name)

\* A worker not registered yet.
NoWorker == [state |-> "none", handle |-> NoHandle, pending |-> {}, got |-> {},
             skipWaiting |-> FALSE, keys |-> {}, seen |-> {}, todo |-> {},
             claimed |-> FALSE]

NoWorkers ==
    /\ caches = <<>>
    /\ made = 0
    /\ sw = [v \in Versions |-> NoWorker]
    /\ fetches = <<>>

RECURSIVE SelectNot(_, _)
SelectNot(urls, skip) ==
    IF urls = <<>> THEN <<>>
    ELSE IF Head(urls) \in skip THEN SelectNot(Tail(urls), skip)
    ELSE <<Head(urls)>> \o SelectNot(Tail(urls), skip)

\* The assets the install handler caches: dione-os-v1 leaves out the https://
\* URLs, dione-os-v2 takes the whole list.
ToPrecache(v) ==
    IF v = "v1" THEN SelectNot(PRECACHE_ASSETS(v), {u \in Urls : StartsWithHttps(u)})
    ELSE PRECACHE_ASSETS(v)

\* The install event: caches.open(CACHE_NAME) resolves (the cache is created
\* when missing), and the pre-caching begins.
Install(v) ==
    /\ sw[v].state = "none"
    /\ \A w \in Versions : sw[w].state \in {"none", "activated", "redundant", "failed"}
    /\ caches' = CachesOpen(caches, CACHE_NAME(v), made + 1)
    /\ made' = IF CACHE_NAME(v) \in Names(caches) THEN made ELSE made + 1
    /\ sw' = [sw EXCEPT ![v].state = "installing",
                        ![v].handle = Named(caches', CACHE_NAME(v)).id,
                        ![v].pending = Range(ToPrecache(v))]
    /\ UNCHANGED <<fetches, dbVars, rt, qry, ui>>

\* dione-os-v2: cache.add(url) settles for one asset: the response is stored
\* when it is ok; a failed fetch or an HTTP error rejects, which the catch
\* logs.
CacheAdd(v, url) ==
    /\ v = "v2"
    /\ sw[v].state = "installing"
    /\ url \in sw[v].pending
    /\ \/ /\ caches' = CachePut(caches, sw[v].handle, url, Precached)
          /\ sw' = [sw EXCEPT ![v].pending = @ \ {url}, ![v].got = @ \cup {url}]
       \/ /\ caches' = caches
          /\ sw' = [sw EXCEPT ![v].pending = @ \ {url}]
    /\ UNCHANGED <<made, fetches, dbVars, rt, qry, ui>>

\* dione-os-v1: cache.addAll(urls) fetches every asset and stores them all, or,
\* when a fetch fails or answers with an HTTP error, stores none and rejects:
\* the promise given to waitUntil rejects and the installation fails.
CacheAddAll(v) ==
    /\ v = "v1"
    /\ sw[v].state = "installing"
    /\ sw[v].pending # {}
    /\ \/ /\ caches' = CachePutAll(caches, sw[v].handle, ToPrecache(v), Precached)
          /\ sw' = [sw EXCEPT ![v].pending = {}, ![v].got = sw[v].pending]
       \/ \E bad \in sw[v].pending :
            /\ caches' = caches
            /\ sw' = [sw EXCEPT ![v].pending = {}, ![v].got = sw[v].pending \ {bad},
                                ![v].state = "failed"]
    /\ UNCHANGED <<made, fetches, dbVars, rt, qry, ui>>

\* .then(() => self.skipWaiting()): the install handler is done.
SkipWaiting(v) ==
    /\ sw[v].state = "installing"
    /\ sw[v].pending = {}
    /\ sw' = [sw EXCEPT ![v].state = "installed", ![v].skipWaiting = TRUE]
    /\ UNCHANGED <<caches, made, fetches, dbVars, rt, qry, ui>>

\* An activation that deletes every cache it finds.
OldKeysAll(keys, v) == keys

\* keys.filter((key) => key !== CACHE_NAME)
OldKeys(keys, v) == {key \in keys : key # CACHE_NAME(v)}

\* The activate event: caches.keys() resolves and a caches.delete is issued
\* for every old key.  The worker that was active becomes redundant.
Activate(v) ==
    /\ sw[v].state = "installed"
    /\ sw' = [w \in Versions |->
                IF w = v
                THEN [sw[v] EXCEPT !.state = "activating",
                                   !.keys = Names(caches),
                                   !.seen = {[name |-> caches[j].name, id |-> caches[j].id] :
                                               j \in 1..Len(caches)},
                                   !.todo = OldKeys(Names(caches), v)]
                ELSE IF sw[w].state = "activated" THEN [sw[w] EXCEPT !.state = "redundant"]
                ELSE sw[w]]
    /\ UNCHANGED <<caches, made, fetches, dbVars, rt, qry, ui>>

\* One caches.delete(key) of the activate handler takes effect.
DeleteOld(v, key) ==
    /\ sw[v].state = "activating"
    /\ key \in sw[v].todo
    /\ caches' = CachesDelete(caches, key)
    /\ sw' = [sw EXCEPT ![v].todo = @ \ {key}]
    /\ UNCHANGED <<made, fetches, dbVars, rt, qry, ui>>

\* .then(() => self.clients.claim()), after Promise.all of the deletions.
ClientsClaim(v) ==
    /\ sw[v].state = "activating"
    /\ sw[v].todo = {}
    /\ sw' = [sw EXCEPT ![v].state = "activated", ![v].claimed = TRUE]
    /\ UNCHANGED <<caches, made, fetches, dbVars, rt, qry, ui>>

\* A handler without the method test.
StrategyAnyMethod(v, request) ==
    IF ~StartsWithHttp(Protocol(request.url)) THEN "none"
    ELSE IF IncludesFontsG(Hostname(request.url)) THEN "networkFirst"
    ELSE IF v = "v2" /\ Origin(request.url) # Origin(SW_URL) THEN "none"
    ELSE "cacheFirst"

\* The strategy the fetch handler answers a request with, "none" when it
\* returns without calling respondWith.  dione-os-v1 has no same-origin test.
Strategy(v, request) ==
    IF request.method # "GET" THEN "none"
    ELSE IF ~StartsWithHttp(Protocol(request.url)) THEN "none"
    ELSE IF IncludesFontsG(Hostname(request.url)) THEN "networkFirst"
    ELSE IF v = "v2" /\ Origin(request.url) # Origin(SW_URL) THEN "none"
    ELSE "cacheFirst"

\* A same-origin asset that is not pre-cached, the font stylesheet, and a
\* request the handler leaves alone.
SomeRequests ==
    {Request("GET", IconUrl), Request("GET", FontUrl), Request("POST", ShellUrl),
     Request("GET", ShellUrl), Request("GET", CdnUrl), Request("GET", ExtensionUrl)}

\* A fetch event is dispatched to the active worker.  The event being
\* handled: the worker, the request, the strategy, the place in cacheFirst /
\* networkFirst, the network response and the cache handle held, and the
\* response given to respondWith.
FetchEvent(v, request) ==
    /\ sw[v].state = "activated"
    /\ Len(fetches) < MaxFetches
    /\ fetches' = Append(fetches,
          [worker |-> v, request |-> request, strategy |-> Strategy(v, request),
           pc |-> CASE Strategy(v, request) = "cacheFirst" -> "match"
                    [] Strategy(v, request) = "networkFirst" -> "fetch"
                    [] OTHER -> "done",
           net |-> NoResponse, handle |-> NoHandle, response |-> NoResponse])
    /\ UNCHANGED <<caches, made, sw, dbVars, rt, qry, ui>>

\* A handler that settles without a response.
RespondNothing(f, response) == [f EXCEPT !.pc = "done"]

\* The promise given to respondWith resolves with the response.
Respond(f, response) == [f EXCEPT !.pc = "done", !.response = response]

\* await caches.match(request): at the start of cacheFirst (a hit is the
\* answer), and in the catch of networkFirst.
Match(i) ==
    LET f == fetches[i]
        cached == CachesMatch(caches, f.request.url)
    IN  /\ f.pc = "match"
        /\ fetches' = [fetches EXCEPT ![i] =
              IF cached # NoResponse THEN Respond(f, cached)
              ELSE IF f.strategy = "cacheFirst" THEN [f EXCEPT !.pc = "fetch"]
              ELSE Respond(f, Response("Offline", 503))]
        /\ UNCHANGED <<caches, made, sw, dbVars, rt, qry, ui>>

\* await fetch(request): an ok response is to be cached, an HTTP error is
\* returned as it is, a failure throws.
Fetch(i) ==
    LET f == fetches[i] IN
    /\ f.pc = "fetch"
    /\ \/ \E response \in NetworkOk :
            fetches' = [fetches EXCEPT ![i] = [f EXCEPT !.pc = "open", !.net = response]]
       \/ \E response \in NetworkError :
            fetches' = [fetches EXCEPT ![i] = Respond([f EXCEPT !.net = response], response)]
       \/ fetches' = [fetches EXCEPT ![i] =
            [f EXCEPT !.pc = IF f.strategy = "cacheFirst" THEN "fallback" ELSE "match"]]
    /\ UNCHANGED <<caches, made, sw, dbVars, rt, qry, ui>>

\* await caches.open(CACHE_NAME) resolves; cache.put is called and not
\* awaited; the response is returned.
Open(i) ==
    LET f == fetches[i]
        name == CACHE_NAME(f.worker)
    IN  /\ f.pc = "open"
        /\ caches' = CachesOpen(caches, name, made + 1)
        /\ made' = IF name \in Names(caches) THEN made ELSE made + 1
        /\ fetches' = [fetches EXCEPT ![i] =
              [f EXCEPT !.pc = "put", !.handle = Named(caches', name).id, !.response = f.net]]
        /\ UNCHANGED <<sw, dbVars, rt, qry, ui>>

\* The cache.put of cacheFirst / networkFirst takes effect.
Put(i) ==
    LET f == fetches[i] IN
    /\ f.pc = "put"
    /\ caches' = CachePut(caches, f.handle, f.request.url, f.net)
    /\ fetches' = [fetches EXCEPT ![i].pc = "done", ![i].handle = NoHandle]
    /\ UNCHANGED <<made, sw, dbVars, rt, qry, ui>>

\* The catch of cacheFirst: the cached index.html; dione-os-v2 then tries the
\* cached BASE_PATH; else a 503 made up by the worker.
Fallback(i) ==
    LET f == fetches[i]
        shell == CachesMatch(caches, IF f.worker = "v1" THEN "/index.html" ELSE ShellUrl)
    IN  /\ f.pc = "fallback"
        /\ fetches' = [fetches EXCEPT ![i] =
              IF shell # NoResponse THEN Respond(f, shell)
              ELSE IF f.worker = "v1"
                   THEN Respond(f, Response("Offline - could not load resource", 503))
                   ELSE [f EXCEPT !.pc = "fallback2"]]
        /\ UNCHANGED <<caches, made, sw, dbVars, rt, qry, ui>>

FallbackRoot(i) ==
    LET f == fetches[i]
        root == CachesMatch(caches, BASE_PATH)
    IN  /\ f.pc = "fallback2"
        /\ fetches' = [fetches EXCEPT ![i] =
              IF root # NoResponse THEN Respond(f, root)
              ELSE Respond(f, Response("Dione OS is offline. Please reload when connected.", 503))]
        /\ UNCHANGED <<caches, made, sw, dbVars, rt, qry, ui>>

\* ------------------------------------------------------------ application
\* app.js (src/service-worker.js): the navigation, the projects view, quick
\* capture, the entry editor sheet and the thinking editor, as far as they
\* decide what is saved.  An entry is its id, mode, projectId, pinned,
\* starred, createdAt and updatedAt; text, tags and the other fields are
\* copied through by every handler and left out.

\* Utils.CAPTURE_META[type].mode
CAPTURE_META(type) == IF type = "quote" THEN "thinking" ELSE "daily"

\* The application after App.init(): the daily view, no project opened, the
\* projects view on its folder grid (detail: the detail view of a folder is
\* shown instead), both editors hidden, no page in the thinking editor.  now
\* is Date.now().
\* first (id -> the createdAt of the entry's first save) and last (the time
\* of the latest save and the updatedAt it wrote) record what was saved.
NoUi ==
    [currentView |-> "daily", _currentProjectId |-> Null, detail |-> FALSE,
     sheet |-> FALSE,
     _state |-> [id |-> "", mode |-> "daily", projectId |-> Null,
                 pinned |-> FALSE, starred |-> FALSE],
     editor |-> FALSE, _currentEntry |-> [id |-> ""],
     now |-> 1,
     first |-> [id \in {} |-> 0],
     last |-> [at |-> 0, updatedAt |-> 0]]

appFrame == UNCHANGED <<_db, conns, open, notified, txs, call, calls, faults, rt, qry, swVars>>

\* Time passes.
Tick ==
    /\ ui.now < MaxClock
    /\ ui' = [ui EXCEPT !.now = @ + 1]
    /\ UNCHANGED stores
    /\ appFrame

\* Utils.uid(): an id no entry has.
Unused == EntryIds \ (DOMAIN stores[STORE_ENTRIES] \cup {ui._state.id, ui._currentEntry.id})

\* await DioneDB.saveEntry(entry), at the time ui.now.
SaveEntryNow(u, entry) ==
    /\ stores' = [stores EXCEPT ![STORE_ENTRIES] = StorePut(@, entry)]
    /\ ui' = [u EXCEPT !.first = IF entry.id \in DOMAIN @ THEN @
                                 ELSE [id \in DOMAIN @ \cup {entry.id} |->
                                         IF id = entry.id THEN entry.createdAt ELSE @[id]],
                       !.last = [at |-> ui.now, updatedAt |-> entry.updatedAt]]
    /\ appFrame

\* UINav.switchTo(viewName); the thinking view is rendered as its list, the
\* projects view (UIProjects.render) as its folder grid.
switchTo(viewName) ==
    /\ ~ui.sheet
    /\ ui.currentView # viewName
    /\ ui' = [ui EXCEPT !.currentView = viewName,
                        !.editor = IF viewName = "thinking" THEN FALSE ELSE @,
                        !.detail = IF viewName = "projects" THEN FALSE ELSE @]
    /\ UNCHANGED stores
    /\ appFrame

\* UIProjects.openProject(project), from a card of the folder grid: the
\* detail view is shown.
openProject(project) ==
    /\ ~ui.sheet
    /\ ui.currentView = "projects"
    /\ ~ui.detail
    /\ project \in DOMAIN stores[STORE_PROJECTS]
    /\ ui' = [ui EXCEPT !._currentProjectId = project, !.detail = TRUE]
    /\ UNCHANGED stores
    /\ appFrame

\* The back button of the detail view: UIProjects.render() shows the folder
\* grid; _currentProjectId is left as it is.
render ==
    /\ ~ui.sheet
    /\ ui.currentView = "projects"
    /\ ui.detail
    /\ ui' = [ui EXCEPT !.detail = FALSE]
    /\ UNCHANGED stores
    /\ appFrame

\* An editor sheet that drops the folder.
openNewNoProject(mode, projectId, id) ==
    [ui EXCEPT !.sheet = TRUE,
               !._state = [id |-> id, mode |-> mode, projectId |-> Null,
                           pinned |-> FALSE, starred |-> FALSE]]

\* UIEntry.openNew({mode, projectId, ...})
openNew(mode, projectId, id) ==
    [ui EXCEPT !.sheet = TRUE,
               !._state = [id |-> id, mode |-> mode, projectId |-> projectId,
                           pinned |-> FALSE, starred |-> FALSE]]

\* A capture type is chosen on the quick capture sheet.
Capture(type) ==
    LET projectId == IF ui.currentView = "projects" THEN ui._currentProjectId ELSE Null
        mode == IF projectId # Null THEN "project" ELSE CAPTURE_META(type)
    IN  /\ ~ui.sheet
        /\ \E id \in Unused : ui' = openNew(mode, projectId, id)
        /\ UNCHANGED stores
        /\ appFrame

\* An open that forgets the mode of the entry (the sheet starts as 'daily').
UIEntryOpenAsDaily(entry) ==
    /\ ~ui.sheet
    /\ entry \in DOMAIN stores[STORE_ENTRIES]
    /\ LET e == stores[STORE_ENTRIES][entry] IN
       ui' = [ui EXCEPT !.sheet = TRUE,
                        !._state = [id |-> e.id, mode |-> "daily",
                                    projectId |-> IF "projectId" \in DOMAIN e
                                                  THEN e.projectId ELSE Null,
                                    pinned |-> e.pinned, starred |-> e.starred]]
    /\ UNCHANGED stores
    /\ appFrame

\* UIEntry.open(entry), from a card of a list: _state takes the id, the mode,
\* the projectId, pinned and starred - and no createdAt.
UIEntryOpen(entry) ==
    /\ ~ui.sheet
    /\ entry \in DOMAIN stores[STORE_ENTRIES]
    /\ LET e == stores[STORE_ENTRIES][entry] IN
       ui' = [ui EXCEPT !.sheet = TRUE,
                        !._state = [id |-> e.id, mode |-> e.mode,
                                    projectId |-> IF "projectId" \in DOMAIN e
                                                  THEN e.projectId ELSE Null,
                                    pinned |-> e.pinned, starred |-> e.starred]]
    /\ UNCHANGED stores
    /\ appFrame

\* UIEntry.save(), with something written: createdAt is
\* _state.createdAt || Date.now(), and _state has no createdAt.  Then
\* refreshCurrentView(): in the projects view refreshCurrentProject() opens
\* the folder of _currentProjectId, when there is one.
UIEntrySave ==
    /\ ui.sheet
    /\ SaveEntryNow([ui EXCEPT !.sheet = FALSE,
                               !.detail = IF /\ ui.currentView = "projects"
                                             /\ ui._currentProjectId # Null
                                          THEN TRUE ELSE @],
                    [id |-> ui._state.id, mode |-> ui._state.mode,
                     projectId |-> ui._state.projectId,
                     pinned |-> ui._state.pinned, starred |-> ui._state.starred,
                     createdAt |-> ui.now, updatedAt |-> ui.now])

\* UIThinking.openEditor(entry): a page of the list, or (null) a new page.
openEditor(entry) ==
    /\ ~ui.sheet
    /\ ui.currentView = "thinking"
    /\ ~ui.editor
    /\ IF entry = Null
       THEN \E id \in Unused :
              ui' = [ui EXCEPT !.editor = TRUE,
                               !._currentEntry =
                                  [id |-> id, mode |-> "thinking", pinned |-> FALSE,
                                   starred |-> FALSE, createdAt |-> ui.now,
                                   updatedAt |-> ui.now]]
       ELSE /\ entry \in DOMAIN stores[STORE_ENTRIES]
            /\ stores[STORE_ENTRIES][entry].mode = "thinking"
            /\ ui' = [ui EXCEPT !.editor = TRUE,
                                !._currentEntry = stores[STORE_ENTRIES][entry]]
    /\ UNCHANGED stores
    /\ appFrame

\* UIThinking.saveCurrentEntry(): updatedAt is Date.now(), createdAt is set
\* when the page has none (every page has one); the list is shown.
saveCurrentEntry ==
    /\ ~ui.sheet
    /\ ui.currentView = "thinking"
    /\ ui.editor
    /\ LET entry == [ui._currentEntry EXCEPT !.updatedAt = ui.now] IN
       SaveEntryNow([ui EXCEPT !._currentEntry = entry, !.editor = FALSE], entry)

\* The STAR and PIN buttons of the thinking editor: the flag is flipped and
\* _currentEntry is saved as it is.
ToggleThinking(flag) ==
    /\ ~ui.sheet
    /\ ui.currentView = "thinking"
    /\ ui.editor
    /\ LET entry == [ui._currentEntry EXCEPT ![flag] = ~@] IN
       SaveEntryNow([ui EXCEPT !._currentEntry = entry], entry)

\* ------------------------------------------------------------ specification
Start(dbs) ==
    /\ stores \in dbs
    /\ _db = NoDb
    /\ conns = 0
    /\ open = {}
    /\ notified = {}
    /\ txs = <<>>
    /\ call = [p \in Procs |-> IdleCall]
    /\ calls = 0
    /\ faults = 0

NoRoundTrip == [pc |-> "none", src |-> EmptyDB, file |-> <<>>, dst |-> EmptyDB, out |-> "none"]

NoFilters == [mode |-> Null, pinned |-> FALSE, starred |-> FALSE]
NoQuery == [pc |-> "none", db |-> EmptyDB, op |-> "none", key |-> Null,
            query |-> <<>>, filters |-> NoFilters, res |-> <<>>]

Caller(p) ==
    \/ \E e \in {E1, E1b, E2p, NoIdEntry} : saveEntry(p, e)
    \/ \E id \in EntryIds : getEntry(p, id)
    \/ \E id \in EntryIds : deleteEntry(p, id)
    \/ \E pr \in {P1, NoIdProject} : saveProject(p, pr)
    \/ \E id \in ProjectIds : getProject(p, id)
    \/ \E id \in ProjectIds : deleteProject(p, id)
    \/ exportData(p)
    \/ \E data \in Backups : importData(p, data)
    \/ OpenSuccess(p)
    \/ CreateTx(p)

Engine ==
    \E i \in 1..Len(txs) :
        \/ ExecRequest(i)
        \/ RequestError(i)
        \/ Commit(i)
        \/ CommitError(i)

\* One caller, which awaits each call before it issues the next.
Next == (Caller("a") \/ Engine) /\ UNCHANGED <<rt, qry, ui, swVars>>

Init == Start(InitDatabases) /\ rt = NoRoundTrip /\ qry = NoQuery /\ NoWorkers /\ ui = NoUi

Spec == Init /\ [][Next]_vars

\* Two callers, each issuing one call, running concurrently.  The
\* continuations of openDB() are microtasks: while one is queued it is the
\* next thing to run, before any call and any event.
NextConc ==
    ( \/ \E p \in Procs :
            /\ call[p].pc # "done"
            /\ \A q \in Procs \ {p} : call[q].todo = {}
            /\ Caller(p)
            /\ call[p].todo # {} => call'[p].todo \subseteq call[p].todo
      \/ ((\A q \in Procs : call[q].todo = {}) /\ Engine) ) /\ UNCHANGED <<rt, qry, ui, swVars>>

SpecConc == Init /\ [][NextConc]_vars

\* One caller, and a version change announced to every open connection at any
\* moment (once per connection), starting from one database.
InitVersion ==
    /\ Start({[s \in StoreNames |->
                 IF s = STORE_ENTRIES THEN [k \in EntryIds |-> IF k = "e1" THEN E1 ELSE E2]
                 ELSE [k \in ProjectIds |-> P1]]})
    /\ rt = NoRoundTrip
    /\ qry = NoQuery
    /\ NoWorkers
    /\ ui = NoUi

NextVersion ==
    (Caller("a") \/ Engine \/ \E h \in open : VersionChange(h)) /\ UNCHANGED <<rt, qry, ui, swVars>>

SpecVersion == InitVersion /\ [][NextVersion]_vars

\* One caller that calls seedDefaultProjects again and again, on a store
\* with no project or with one.  The continuations of openDB() are microtasks:
\* no engine event is delivered while one is queued.
InitSeed ==
    /\ Start({db \in InitDatabases : DOMAIN db[STORE_ENTRIES] = {}})
    /\ rt = NoRoundTrip
    /\ qry = NoQuery
    /\ NoWorkers
    /\ ui = NoUi

NextSeed ==
    ( \/ seedDefaultProjects("a")
      \/ OpenSuccess("a")
      \/ CreateTx("a")
      \/ (call["a"].todo = {} /\ Engine) ) /\ UNCHANGED <<rt, qry, ui, swVars>>

SpecSeed == InitSeed /\ [][NextSeed]_vars

\* Two callers (for instance two first-run start-ups), each calling
\* seedDefaultProjects once, running concurrently.
NextSeeds ==
    ( \/ \E p \in Procs :
            /\ call[p].pc # "done"
            /\ \A q \in Procs : call[q].todo = {}
            /\ (seedDefaultProjects(p) \/ OpenSuccess(p))
      \/ \E p \in Procs :
            /\ \A q \in Procs \ {p} : call[q].todo = {}
            /\ CreateTx(p)
      \/ ((\A q \in Procs : call[q].todo = {}) /\ Engine) ) /\ UNCHANGED <<rt, qry, ui, swVars>>

SpecSeeds == InitSeed /\ [][NextSeeds]_vars

\* ------------------------------------------------------------ round trip
\* exportData and importData as functions of the contents, for a caller that
\* runs alone on an engine that does not fail: what exportData resolves with on
\* contents db, and the contents importData leaves when run on contents db.
ExportOf(db, t) ==
    Snapshot([ents |-> SortDesc(StoreGetAll(db[STORE_ENTRIES], STORE_ENTRIES)),
              projs |-> SortDesc(StoreGetAll(db[STORE_PROJECTS], STORE_PROJECTS))], t)

ImportInto(db, data) == ApplyAll(db, QueuedBeforeThrow(ImportPuts(data)))

ImportOutcome(data) ==
    IF ValidFormat(data) /\ ~Throws(ImportPuts(data)) THEN "resolved" ELSE "rejected"

\* The backup object read back from an exported snapshot.
AsBackup(file) == Backup(ArrayOf(file.entries), ArrayOf(file.projects))

RoundTripExport ==
    /\ rt.pc = "source"
    /\ \E t \in Times : rt' = [rt EXCEPT !.pc = "exported", !.file = <<ExportOf(rt.src, t)>>]
    /\ UNCHANGED <<dbVars, qry, ui, swVars>>

RoundTripImport ==
    /\ rt.pc = "exported"
    /\ rt' = [rt EXCEPT !.pc = "imported",
                         !.dst = IF ValidFormat(AsBackup(rt.file[1]))
                                 THEN ImportInto(EmptyDB, AsBackup(rt.file[1]))
                                 ELSE EmptyDB,
                         !.out = ImportOutcome(AsBackup(rt.file[1]))]
    /\ UNCHANGED <<dbVars, qry, ui, swVars>>

InitRoundTrip ==
    /\ Start({EmptyDB})
    /\ rt \in {[NoRoundTrip EXCEPT !.pc = "source", !.src = db] : db \in Databases}
    /\ qry = NoQuery
    /\ NoWorkers
    /\ ui = NoUi

NextRoundTrip == RoundTripExport \/ RoundTripImport

SpecRoundTrip == InitRoundTrip /\ [][NextRoundTrip]_vars

\* ------------------------------------------------------------ queries
\* The read operations as functions of the contents, for a caller that runs
\* alone on an engine that does not fail.  Strings are sequences of characters.
toLowerCase(str) == [i \in 1..Len(str) |-> IF str[i] = "A" THEN "a" ELSE str[i]]

RECURSIVE trimStart(_)
trimStart(str) == IF str # <<>> /\ Head(str) = " " THEN trimStart(Tail(str)) ELSE str

RECURSIVE trimEnd(_)
trimEnd(str) ==
    IF str # <<>> /\ str[Len(str)] = " " THEN trimEnd(SubSeq(str, 1, Len(str) - 1)) ELSE str

\* String.prototype.trim
trim(str) == trimEnd(trimStart(str))

RECURSIVE startsWith(_, _)
startsWith(str, q) ==
    IF q = <<>> THEN TRUE
    ELSE IF str = <<>> THEN FALSE
    ELSE Head(str) = Head(q) /\ startsWith(Tail(str), Tail(q))

RECURSIVE includes(_, _)
\* String.prototype.includes
includes(str, q) ==
    IF startsWith(str, q) THEN TRUE
    ELSE IF str = <<>> THEN FALSE
    ELSE includes(Tail(str), q)

\* An index is keyed by the value at its key path; an object without a valid
\* key there (the field absent or null) is not in the index.
InIndex(r, keyPath, v) == keyPath \in DOMAIN r /\ r[keyPath] = v

\* An index lookup that returns the whole store.
SelectIndexAll(recs, keyPath, v) == recs

RECURSIVE SelectIndex(_, _, _)
\* index(keyPath).getAll(IDBKeyRange.only(v)) over the objects in key order.
SelectIndex(recs, keyPath, v) ==
    IF recs = <<>> THEN <<>>
    ELSE IF InIndex(Head(recs), keyPath, v)
         THEN <<Head(recs)>> \o SelectIndex(Tail(recs), keyPath, v)
         ELSE SelectIndex(Tail(recs), keyPath, v)

AllEntriesOf(db) == SortDesc(StoreGetAll(db[STORE_ENTRIES], STORE_ENTRIES))
AllProjectsOf(db) == SortDesc(StoreGetAll(db[STORE_PROJECTS], STORE_PROJECTS))
EntriesByIndexOf(db, keyPath, v) ==
    SortDesc(SelectIndex(StoreGetAll(db[STORE_ENTRIES], STORE_ENTRIES), keyPath, v))

\* A text match that does not look at the tags.
TextMatchNoTags(entry, q) ==
    \/ q = <<>>
    \/ "body" \in DOMAIN entry /\ entry.body # <<>> /\ includes(toLowerCase(entry.body), q)
    \/ "title" \in DOMAIN entry /\ entry.title # <<>> /\ includes(toLowerCase(entry.title), q)

\* textMatch of searchEntries: !q, or body, title or some tag includes q.
TextMatch(entry, q) ==
    \/ q = <<>>
    \/ "body" \in DOMAIN entry /\ entry.body # <<>> /\ includes(toLowerCase(entry.body), q)
    \/ "title" \in DOMAIN entry /\ entry.title # <<>> /\ includes(toLowerCase(entry.title), q)
    \/ "tags" \in DOMAIN entry
         /\ \E i \in 1..Len(entry.tags) : includes(toLowerCase(entry.tags[i]), q)

\* The callback of all.filter in searchEntries.
Keeps(entry, q, filters) ==
    IF ~TextMatch(entry, q) THEN FALSE
    ELSE IF filters.mode # Null /\ entry.mode # filters.mode THEN FALSE
    ELSE IF filters.pinned /\ ~entry.pinned THEN FALSE
    ELSE IF filters.starred /\ ~entry.starred THEN FALSE
    ELSE TRUE

RECURSIVE Filter(_, _, _)
Filter(all, q, filters) ==
    IF all = <<>> THEN <<>>
    ELSE IF Keeps(Head(all), q, filters) THEN <<Head(all)>> \o Filter(Tail(all), q, filters)
         ELSE Filter(Tail(all), q, filters)

SearchOf(db, query, filters) == Filter(AllEntriesOf(db), trim(toLowerCase(query)), filters)

Ask(op) == /\ qry.pc = "ready"
           /\ qry.op = op

Answer(res) ==
    /\ qry' = [qry EXCEPT !.pc = "done", !.res = res]
    /\ UNCHANGED <<dbVars, rt, ui, swVars>>

getAllEntries == Ask("getAllEntries") /\ Answer(AllEntriesOf(qry.db))
getAllProjects == Ask("getAllProjects") /\ Answer(AllProjectsOf(qry.db))
getEntriesByMode == Ask("getEntriesByMode") /\ Answer(EntriesByIndexOf(qry.db, "mode", qry.key))
getEntriesByProject ==
    Ask("getEntriesByProject") /\ Answer(EntriesByIndexOf(qry.db, "projectId", qry.key))
searchEntries == Ask("searchEntries") /\ Answer(SearchOf(qry.db, qry.query, qry.filters))

\* Entries as the application stores them (the fields the queries read).  An
\* entry of a folder carries its projectId; title is absent on some.
QueryProjectIds == {"p1", "p2"}

N3b == [id |-> "e3", createdAt |-> 1, mode |-> "project", projectId |-> "p1",
        body |-> <<"b">>, tags |-> << <<"a", " ", "b">> >>, pinned |-> FALSE, starred |-> TRUE]

Notes ==
    {[id |-> "e1", createdAt |-> 1, mode |-> "daily", body |-> <<"A", " ", "b">>,
      tags |-> <<>>, pinned |-> FALSE, starred |-> FALSE],
     [id |-> "e1", createdAt |-> 2, mode |-> "project", projectId |-> "p1",
      title |-> <<"a">>, body |-> <<>>, tags |-> <<>>, pinned |-> TRUE, starred |-> FALSE],
     [id |-> "e2", createdAt |-> 2, mode |-> "daily", title |-> <<"b">>, body |-> <<"b">>,
      tags |-> << <<"b">>, <<"A", "b">> >>, pinned |-> FALSE, starred |-> TRUE],
     [id |-> "e2", createdAt |-> 1, mode |-> "project", projectId |-> "p2",
      title |-> <<>>, body |-> <<"a", "b">>, tags |-> <<>>, pinned |-> TRUE, starred |-> TRUE],
     [id |-> "e3", createdAt |-> 2, mode |-> "thinking", title |-> <<"A">>,
      body |-> <<"b", "a">>, tags |-> <<>>, pinned |-> FALSE, starred |-> FALSE],
     N3b}

QueryDatabases ==
    {[s \in StoreNames |-> IF s = STORE_ENTRIES THEN es ELSE ps] :
        es \in StoresOver({"e1", "e2", "e3"}, Notes),
        ps \in StoresOver(QueryProjectIds, [id : QueryProjectIds, createdAt : Times])}

\* What the user types, and the filters UISearch.buildFilter makes (at most one
\* of them), besides combinations of them.
Filters ==
    {NoFilters,
     [NoFilters EXCEPT !.pinned = TRUE],
     [NoFilters EXCEPT !.starred = TRUE],
     [NoFilters EXCEPT !.mode = "daily"],
     [NoFilters EXCEPT !.mode = "project", !.pinned = TRUE],
     [NoFilters EXCEPT !.mode = "project", !.pinned = TRUE, !.starred = TRUE]}

Asked(db) ==
    LET q == [NoQuery EXCEPT !.pc = "ready", !.db = db] IN
    {[q EXCEPT !.op = "getAllEntries"], [q EXCEPT !.op = "getAllProjects"]}
    \cup {[q EXCEPT !.op = "getEntriesByMode", !.key = m] : m \in {"daily", "project", "thinking"}}
    \cup {[q EXCEPT !.op = "getEntriesByProject", !.key = pid] : pid \in QueryProjectIds}
    \cup {[q EXCEPT !.op = "searchEntries", !.query = str, !.filters = f] :
             str \in {<<>>, <<" ">>, <<"a">>, <<" ", "A", " ">>, <<"A", "b">>,
                       <<"a", " ", "b">>, <<"b", "b">>},
             f \in Filters}

InitQuery ==
    /\ Start({EmptyDB})
    /\ rt = NoRoundTrip
    /\ qry \in UNION {Asked(db) : db \in QueryDatabases}
    /\ NoWorkers
    /\ ui = NoUi

NextQuery ==
    \/ getAllEntries
    \/ getAllProjects
    \/ getEntriesByMode
    \/ getEntriesByProject
    \/ searchEntries

SpecQuery == InitQuery /\ [][NextQuery]_vars

\* ------------------------------------------------------------ service worker runs
\* The workers start with no cache, or with a cache of another application of
\* the origin.  The fetch events come one after the other: the next one once
\* the handler of the one before has returned (its cache.put, which is not
\* awaited, may still be under way).
InitWorkers ==
    /\ Start({EmptyDB})
    /\ rt = NoRoundTrip
    /\ qry = NoQuery
    /\ ui = NoUi
    /\ caches \in {<<>>, <<Cache("other-app", 0, [u \in {ShellUrl} |-> Response("b1", 200)])>>}
    /\ made = 0
    /\ sw = [v \in Versions |-> NoWorker]
    /\ fetches = <<>>

NextWorkers ==
    \/ \E v \in Versions :
          \/ Install(v)
          \/ \E url \in Urls : CacheAdd(v, url)
          \/ CacheAddAll(v)
          \/ SkipWaiting(v)
          \/ Activate(v)
          \/ \E key \in sw[v].todo : DeleteOld(v, key)
          \/ ClientsClaim(v)
          \/ \E request \in SomeRequests :
                /\ \A i \in 1..Len(fetches) : fetches[i].pc \in {"done", "put"}
                /\ FetchEvent(v, request)
    \/ \E i \in 1..Len(fetches) :
          \/ Match(i)
          \/ Fetch(i)
          \/ Open(i)
          \/ Put(i)
          \/ Fallback(i)
          \/ FallbackRoot(i)

SpecWorkers == InitWorkers /\ [][NextWorkers]_vars

\* Every await of a handler settles: a cache lookup, caches.open and cache.put
\* resolve, and the network answers or fails.
SpecWorkersLive ==
    /\ SpecWorkers
    /\ WF_vars(\E i \in 1..Len(fetches) :
                  Match(i) \/ Fetch(i) \/ Open(i) \/ Put(i) \/ Fallback(i) \/ FallbackRoot(i))

\* ------------------------------------------------------------ application runs
\* One folder exists; the entries are those the application saves.
InitApp ==
    /\ Start({[EmptyDB EXCEPT ![STORE_PROJECTS] = [k \in ProjectIds |-> P1]]})
    /\ rt = NoRoundTrip
    /\ qry = NoQuery
    /\ NoWorkers
    /\ ui = NoUi

NextApp ==
    \/ Tick
    \/ \E viewName \in {"daily", "projects", "thinking"} : switchTo(viewName)
    \/ \E project \in ProjectIds : openProject(project)
    \/ render
    \/ \E type \in {"idea", "quote"} : Capture(type)
    \/ \E entry \in EntryIds : UIEntryOpen(entry)
    \/ UIEntrySave
    \/ \E entry \in EntryIds \cup {Null} : openEditor(entry)
    \/ saveCurrentEntry
    \/ \E flag \in {"starred", "pinned"} : ToggleThinking(flag)

SpecApp == InitApp /\ [][NextApp]_vars

\* ------------------------------------------------------------ claims
Ids(recs) == {r.id : r \in {x \in Range(recs) : HasKey(x)}}
Without(st, ks) == [k \in DOMAIN st \ ks |-> st[k]]
FiledUnder(e, pid) == "projectId" \in DOMAIN e /\ e.projectId = pid

\* The cascade of caller p has created its transaction and waits for it.
InCascade(p) ==
    /\ call[p].op = "deleteProject"
    /\ call[p].pc = "run"
    /\ call[p].phase = 2
    /\ call[p].todo = {}
    /\ call[p].opening = <<>>

OwnedBy(T, p) == {T[i] : i \in {j \in 1..Len(T) : T[j].owner = p}}

\* C1: the removals of deleteProject(p) - every entry it read and the project -
\* are requests of one transaction; no step of that transaction changes the
\* committed contents except its commit, which removes them all at once and
\* resolves the call; when the transaction fails (the call rejects or is left
\* unsettled) the contents are as before.
CascadeIsAtomic ==
    [][\A p \in Procs :
          InCascade(p) =>
            LET removed == Ids(call[p].ents)
                mine == OwnedBy(txs, p)
            IN  /\ \E tx \in mine :
                      {<<r.store, r.arg>> : r \in Range(tx.reqs)}
                        = ({STORE_ENTRIES} \X removed) \cup {<<STORE_PROJECTS, call[p].arg>>}
                /\ IF OwnedBy(txs', p) = mine THEN TRUE
                   ELSE IF call'[p].out = "resolved"
                        THEN stores' = [s \in StoreNames |->
                                          IF s = STORE_ENTRIES THEN Without(stores[s], removed)
                                          ELSE Without(stores[s], {call[p].arg})]
                        ELSE stores' = stores]_vars

\* A cascade that removed a project and at least one entry has resolved while
\* the other caller's call was still running.
CascadeIsAtomicWitness ==
    \E p \in Procs :
        /\ call[p].op = "deleteProject"
        /\ call[p].out = "resolved"
        /\ Len(call[p].ents) >= 1
        /\ \E q \in Procs \ {p} : call[q].pc = "run"

\* C2: once deleteProject(p) has resolved, the store holds no Project with
\* id p and no Entry whose projectId is p.
CascadeLeavesNothing ==
    \A c \in Procs :
        (call[c].op = "deleteProject" /\ call[c].out = "resolved") =>
            /\ call[c].arg \notin DOMAIN stores[STORE_PROJECTS]
            /\ \A k \in DOMAIN stores[STORE_ENTRIES] :
                  ~FiledUnder(stores[STORE_ENTRIES][k], call[c].arg)

\* A cascade has resolved that found the project and entries filed under it.
CascadeLeavesNothingWitness ==
    /\ call["a"].op = "deleteProject"
    /\ call["a"].out = "resolved"
    /\ call["a"].arg \in DOMAIN call["a"].pre[STORE_PROJECTS]
    /\ Len(call["a"].ents) = 2

Holds(st, r) == r.id \in DOMAIN st /\ st[r.id] = r

\* A backup that is present and whose entries and projects are both arrays.
ArrayTyped(data) == data.present /\ data.entries.isArray /\ data.projects.isArray

\* C3: importData of a backup with array-typed entries and projects is all or
\* nothing: when the promise has rejected, the contents are those from before
\* the call; when it has resolved, every project and every entry of the backup
\* is in the store.  (Calls issued while no transaction was live.)
ImportAllOrNothing ==
    \A c \in Procs :
        (call[c].op = "importData" /\ ArrayTyped(call[c].arg) /\ call[c].quiet) =>
            /\ call[c].out = "rejected" => stores = call[c].pre
            /\ call[c].out = "resolved" =>
                  /\ \A r \in Range(call[c].arg.projects.items) : Holds(stores[STORE_PROJECTS], r)
                  /\ \A r \in Range(call[c].arg.entries.items) : Holds(stores[STORE_ENTRIES], r)

\* C4: saveEntry / saveProject resolve with the id of the object, and a
\* getEntry / getProject of that id, issued next by the same caller once the
\* save has resolved, resolves with the object saved.
SaveThenGet ==
    \A c \in Procs :
        /\ (call[c].op \in {"saveEntry", "saveProject"} /\ call[c].out = "resolved") =>
              (call[c].res.kind = "key" /\ call[c].res.val = call[c].arg.id)
        /\ \A op \in {"Entry", "Project"} :
              ( /\ call[c].op = "get" \o op
                /\ call[c].out = "resolved"
                /\ call[c].prev.op = "save" \o op
                /\ call[c].prev.arg.id = call[c].arg ) =>
                    (call[c].res.kind = "object" /\ call[c].res.val = call[c].prev.arg)

\* C5: importing what exportData returned for contents S into an empty store
\* yields the Entries and the Projects of S.
RoundTrip ==
    rt.pc = "imported" => (rt.out = "resolved" /\ rt.dst = rt.src)

\* A round trip of two entries with one createdAt and a project is done.
RoundTripWitness ==
    /\ rt.pc = "imported"
    /\ DOMAIN rt.src[STORE_ENTRIES] = EntryIds
    /\ rt.src[STORE_ENTRIES]["e1"].createdAt = rt.src[STORE_ENTRIES]["e2"].createdAt
    /\ DOMAIN rt.src[STORE_PROJECTS] = ProjectIds

\* C6: a second importData of the same backup, issued once the first has
\* resolved, leaves the contents the first one left.
ImportTwice ==
    \A c \in Procs :
        ( /\ call[c].op = "importData"
          /\ call[c].out = "resolved"
          /\ call[c].prev.op = "importData"
          /\ call[c].prev.arg = call[c].arg ) => stores = call[c].pre

\* The second import of a backup that carries objects has resolved.
ImportTwiceWitness ==
    /\ call["a"].op = "importData"
    /\ call["a"].out = "resolved"
    /\ call["a"].prev.op = "importData"
    /\ call["a"].prev.arg = call["a"].arg
    /\ Len(call["a"].arg.entries.items) = 2

Items(data, s) == IF s = STORE_ENTRIES THEN data.entries.items ELSE data.projects.items

ImportResolves(c) ==
    /\ call[c].op = "importData"
    /\ call[c].out # "resolved"
    /\ call'[c].out = "resolved"

\* C7: the step in which importData succeeds leaves every Entry and Project
\* whose id does not occur in the backup in the store, unchanged.
ImportKeepsOthers ==
    [][\A c \in Procs :
          ImportResolves(c) =>
            \A s \in StoreNames :
              \A k \in DOMAIN stores[s] \ Ids(Items(call[c].arg, s)) :
                  k \in DOMAIN stores'[s] /\ stores'[s][k] = stores[s][k]]_vars

\* An import of objects has resolved with an entry in the store that the
\* backup does not carry.
ImportKeepsOthersWitness ==
    /\ call["a"].op = "importData"
    /\ call["a"].out = "resolved"
    /\ Len(call["a"].arg.entries.items) >= 1
    /\ \E k \in DOMAIN call["a"].pre[STORE_ENTRIES] :
          /\ k \notin Ids(call["a"].arg.entries.items)
          /\ k \in DOMAIN stores[STORE_ENTRIES]

\* The object a backup carries for id k: the last one, if it carries several.
LastWith(recs, k) ==
    recs[CHOOSE i \in 1..Len(recs) :
            /\ recs[i].id = k
            /\ \A j \in 1..Len(recs) : recs[j].id = k => j <= i]

\* C8: the step in which importData succeeds leaves, for every id of the
\* backup, exactly the backup's object in the store: no field of the object
\* stored before survives.
ImportOverwrites ==
    [][\A c \in Procs :
          ImportResolves(c) =>
            \A s \in StoreNames :
              \A k \in Ids(Items(call[c].arg, s)) :
                  k \in DOMAIN stores'[s]
                  /\ stores'[s][k] = LastWith(Items(call[c].arg, s), k)]_vars

\* An import has resolved that overwrote an entry carrying a field (projectId)
\* the backup's object does not carry.
ImportOverwritesWitness ==
    /\ call["a"].op = "importData"
    /\ call["a"].out = "resolved"
    /\ call["a"].quiet
    /\ \E k \in Ids(call["a"].arg.entries.items) \cap DOMAIN call["a"].pre[STORE_ENTRIES] :
          /\ "projectId" \in DOMAIN call["a"].pre[STORE_ENTRIES][k]
          /\ "projectId" \notin DOMAIN stores[STORE_ENTRIES][k]

\* C9: an importData whose backup is absent, or whose entries or projects is
\* not an array, rejects with the invalid-format error in the step of the call
\* itself, which changes neither the contents nor the transactions nor the
\* connection.
ImportRejectsBadFormat ==
    [][\A c \in Procs :
          ( /\ call'[c] # call[c]
            /\ call'[c].op = "importData"
            /\ ~ArrayTyped(call'[c].arg) ) =>
              /\ call'[c].pc = "done"
              /\ call'[c].out = "rejected"
              /\ call'[c].res.kind = "error"
              /\ call'[c].res.val = "Invalid backup format"
              /\ stores' = stores
              /\ txs' = txs
              /\ _db' = _db
              /\ conns' = conns]_vars

\* An import was rejected whose entries is an array and whose projects is not.
ImportRejectsBadFormatWitness ==
    /\ call["a"].op = "importData"
    /\ call["a"].out = "rejected"
    /\ call["a"].arg.present
    /\ call["a"].arg.entries.isArray
    /\ ~call["a"].arg.projects.isArray

Contents(st) == {st[k] : k \in DOMAIN st}

\* C10: exportData resolves with {version: 1, exportedAt, entries, projects}
\* whose entries and projects are exactly the objects of the two stores, each
\* once - the contents at the call when no earlier write was still in flight -
\* and exportData queues no write.
ExportIsTheStore ==
    \A c \in Procs :
        call[c].op = "exportData" =>
            /\ \A tx \in OwnedBy(txs, c) :
                  tx.mode = "readonly" /\ \A r \in Range(tx.reqs) : ~IsWrite(r)
            /\ call[c].out # "rejected"
            /\ call[c].out = "resolved" =>
                  LET snap == call[c].res.val IN
                  /\ call[c].res.kind = "snapshot"
                  /\ DOMAIN snap = {"version", "exportedAt", "entries", "projects"}
                  /\ snap.version = 1
                  /\ snap.exportedAt \in Times
                  /\ Range(snap.entries) = Contents(stores[STORE_ENTRIES])
                  /\ Len(snap.entries) = Cardinality(DOMAIN stores[STORE_ENTRIES])
                  /\ Range(snap.projects) = Contents(stores[STORE_PROJECTS])
                  /\ Len(snap.projects) = Cardinality(DOMAIN stores[STORE_PROJECTS])
                  /\ call[c].quiet => stores = call[c].pre

\* An export of two entries and a project has resolved.
ExportIsTheStoreWitness ==
    /\ call["a"].op = "exportData"
    /\ call["a"].out = "resolved"
    /\ call["a"].quiet
    /\ Len(call["a"].res.val.entries) = 2
    /\ Len(call["a"].res.val.projects) = 1

\* The engine fails a transaction in this step.
TxFails == faults' = faults + 1

\* C11: in the step in which the engine fails or aborts the transaction of a
\* store operation, none of its writes is applied and the promise of the
\* operation is rejected with the cause: it has not resolved before (its
\* handlers are still attached), and it is neither left pending nor rejected
\* with null.  (The transaction importData left behind when a put threw has
\* its promise rejected already.)
TxFailureRejects ==
    [][TxFails =>
          \E i \in 1..Len(txs) :
            /\ txs' = Remove(txs, i)
            /\ stores' = stores
            /\ \/ txs[i].kind = "multi" /\ txs[i].owner = NoOwner
               \/ /\ txs[i].owner # NoOwner
                  /\ call'[txs[i].owner].out = "rejected"
                  /\ call'[txs[i].owner].res.kind = "error"
                  /\ call'[txs[i].owner].res.val # Null]_vars

\* C12: openDB is memoized: at most one connection is open at any time, and
\* an open connection is the cached handle every call is given.
OneConnection ==
    /\ Cardinality(open) <= 1
    /\ \A h \in open : _db = h

\* C13: a connection a versionchange event was fired at is closed and is not
\* the cached handle, so that the next operation opens a fresh connection.
VersionChangeCloses ==
    \A h \in notified :
        /\ h \notin open
        /\ _db # h

\* createdAt never increases along the sequence.
NonIncreasing(recs) == \A i \in 1..(Len(recs) - 1) : recs[i].createdAt >= recs[i + 1].createdAt

\* A sequence that lists exactly the objects of the set, each once.
ListsExactly(recs, set) == Range(recs) = set /\ Len(recs) = Cardinality(set)

Answered(op) == qry.pc = "done" /\ qry.op = op

\* C14: getAllEntries and getAllProjects return every object of their store,
\* each exactly once, in non-increasing createdAt order.
GetAllSorted ==
    /\ Answered("getAllEntries") =>
          ListsExactly(qry.res, Contents(qry.db[STORE_ENTRIES])) /\ NonIncreasing(qry.res)
    /\ Answered("getAllProjects") =>
          ListsExactly(qry.res, Contents(qry.db[STORE_PROJECTS])) /\ NonIncreasing(qry.res)

\* getAllEntries has answered on a store whose key order is not the createdAt
\* order and that holds two entries with one createdAt.
GetAllSortedWitness ==
    /\ Answered("getAllEntries")
    /\ Len(qry.res) = 3
    /\ qry.db[STORE_ENTRIES]["e1"].createdAt < qry.db[STORE_ENTRIES]["e2"].createdAt
    /\ qry.db[STORE_ENTRIES]["e2"].createdAt = qry.db[STORE_ENTRIES]["e3"].createdAt

\* C15: getEntriesByMode(m) returns exactly the stored entries whose mode is
\* m, getEntriesByProject(p) exactly those whose projectId is p, each once, in
\* non-increasing createdAt order.
ByIndexExact ==
    /\ Answered("getEntriesByMode") =>
          /\ ListsExactly(qry.res, {e \in Contents(qry.db[STORE_ENTRIES]) : e.mode = qry.key})
          /\ NonIncreasing(qry.res)
    /\ Answered("getEntriesByProject") =>
          /\ ListsExactly(qry.res, {e \in Contents(qry.db[STORE_ENTRIES]) :
                                      "projectId" \in DOMAIN e /\ e.projectId = qry.key})
          /\ NonIncreasing(qry.res)

\* getEntriesByProject has answered with two entries of a store that holds a
\* third one, of another project or of none.
ByIndexExactWitness ==
    /\ Answered("getEntriesByProject")
    /\ Len(qry.res) = 2
    /\ qry.res[1].createdAt > qry.res[2].createdAt
    /\ Cardinality(DOMAIN qry.db[STORE_ENTRIES]) = 3

\* q occurs in str as a contiguous substring.
Substring(q, str) == \E i \in 0..Len(str) : \E j \in i..Len(str) : SubSeq(str, i + 1, j) = q

Lowered(str) == [i \in 1..Len(str) |-> IF str[i] = "A" THEN "a" ELSE str[i]]

\* str without the spaces at its ends.
Trimmed(str) ==
    LET inner == {i \in 1..Len(str) : str[i] # " "} IN
    IF inner = {} THEN <<>>
    ELSE SubSeq(str, CHOOSE i \in inner : \A j \in inner : i <= j,
                     CHOOSE i \in inner : \A j \in inner : j <= i)

Matches(e, query, filters) ==
    LET q == Trimmed(Lowered(query)) IN
    /\ \/ q = <<>>
       \/ "body" \in DOMAIN e /\ Substring(q, Lowered(e.body))
       \/ "title" \in DOMAIN e /\ Substring(q, Lowered(e.title))
       \/ \E t \in Range(e.tags) : Substring(q, Lowered(t))
    /\ filters.mode = Null \/ e.mode = filters.mode
    /\ ~filters.pinned \/ e.pinned = TRUE
    /\ ~filters.starred \/ e.starred = TRUE

\* C16: searchEntries(query, filters) returns exactly the stored entries that
\* match: the trimmed, lowercased query is empty or a substring of the
\* lowercased body, title or some tag, and each filter given is satisfied.
SearchExact ==
    Answered("searchEntries") =>
        ListsExactly(qry.res, {e \in Contents(qry.db[STORE_ENTRIES]) :
                                 Matches(e, qry.query, qry.filters)})

\* A search with a query in capitals and spaces has answered with an entry
\* that matches by a tag only, leaving out an entry of the store.
SearchExactWitness ==
    /\ Answered("searchEntries")
    /\ qry.query = <<"a", " ", "b">>
    /\ qry.filters.starred
    /\ N3b \in Range(qry.res)
    /\ Len(qry.res) < Cardinality(DOMAIN qry.db[STORE_ENTRIES])

\* The five default folders, each once, and nothing else.
FiveDefaults(st) ==
    /\ Cardinality(DOMAIN st) = 5
    /\ {st[k].name : k \in DOMAIN st}
         = {"Lota Kopi", "Cucufate", "CLI Work", "Espresso Experiments", "Travel"}

SeedDone(c) ==
    /\ call[c].op = "seedDefaultProjects"
    /\ call[c].out = "resolved"
    /\ txs = <<>>

\* C17: once seedDefaultProjects has resolved and its writes are through: a
\* call on a store with zero projects has left exactly the five default
\* folders, a call on a store with at least one project has changed nothing,
\* and after any number of calls on a store that had none at first there are
\* exactly five projects.
SeedOnce ==
    \A c \in Procs :
        SeedDone(c) =>
            /\ call[c].quiet =>
                  IF DOMAIN call[c].pre[STORE_PROJECTS] = {}
                  THEN /\ FiveDefaults(stores[STORE_PROJECTS])
                       /\ stores[STORE_ENTRIES] = call[c].pre[STORE_ENTRIES]
                  ELSE stores = call[c].pre
            /\ call[c].fresh => FiveDefaults(stores[STORE_PROJECTS])

CacheIds(cs) == {cs[j].id : j \in 1..Len(cs)}

\* C18: the failure of a pre-cache fetch does not abort the installation: no
\* install handler fails; skipWaiting is signalled only once every pre-cache
\* attempt has settled; and when the handler is done skipWaiting has been
\* signalled and every asset that was fetched is in the current version's cache.
InstallTolerant ==
    \A v \in Versions :
        /\ sw[v].state # "failed"
        /\ sw[v].skipWaiting => sw[v].pending = {}
        /\ sw[v].state = "installed" =>
              /\ sw[v].skipWaiting
              /\ CACHE_NAME(v) \in Names(caches)
              /\ sw[v].got \subseteq DOMAIN Named(caches, CACHE_NAME(v)).items

\* C19: from the enumeration of the activate handler to its completion the
\* current version's cache and its entries do not change, and at completion
\* every cache that existed at the enumeration under another name is deleted.
ActivateDeletesOld ==
    [][\A v \in Versions :
          sw[v].state = "activating" =>
            /\ CACHE_NAME(v) \in Names(caches) =>
                  /\ CACHE_NAME(v) \in Names(caches')
                  /\ Named(caches', CACHE_NAME(v)) = Named(caches, CACHE_NAME(v))
            /\ sw'[v].state = "activated" =>
                  \A c \in sw[v].seen : c.name # CACHE_NAME(v) => c.id \notin CacheIds(caches')]_vars

\* dione-os-v2 has been activated after deleting the cache of dione-os-v1 and
\* the cache of another application; its own cache holds the shell.
ActivateDeletesOldWitness ==
    /\ sw["v2"].state = "activated"
    /\ {c.name : c \in sw["v2"].seen} = {"dione-os-v1", "dione-os-v2", "other-app"}
    /\ Names(caches) = {"dione-os-v2"}
    /\ ShellUrl \in DOMAIN Named(caches, "dione-os-v2").items

\* C20: a cache, with every entry it holds, is still in the storage after any
\* step - of an install handler, of a fetch handler - except the step in which
\* the activate handler of a version with another cache name deletes it.
OnlyActivationEvicts ==
    [][\A j \in 1..Len(caches) :
          \/ \E k \in 1..Len(caches') :
                /\ caches'[k].id = caches[j].id
                /\ caches'[k].name = caches[j].name
                /\ DOMAIN caches[j].items \subseteq DOMAIN caches'[k].items
          \/ \E v \in Versions :
                /\ sw[v].state = "activating"
                /\ caches[j].name # CACHE_NAME(v)
                /\ caches[j].name \in sw[v].todo
                /\ sw'[v].todo = sw[v].todo \ {caches[j].name}]_vars

\* The fetch handlers of dione-os-v1 have stored two responses in its cache,
\* which held the pre-cached shell, and the activation of dione-os-v2 has
\* deleted that cache.
OnlyActivationEvictsWitness ==
    /\ sw["v2"].state = "activated"
    /\ sw["v1"].got # {}
    /\ "dione-os-v1" \notin Names(caches)
    /\ Len(fetches) = 2
    /\ \A i \in 1..Len(fetches) :
          /\ fetches[i].worker = "v1"
          /\ fetches[i].pc = "done"
          /\ IsOk(fetches[i].net)

\* A request the fetch handlers are to consider: GET, over http or https.
Considered(request) ==
    /\ request.method = "GET"
    /\ Protocol(request.url) \in {"http:", "https:"}

\* C21: a fetch event whose request is not a GET, or is not over an http-family
\* scheme, is left alone: the step that handles it calls respondWith with
\* nothing, fetches nothing and changes no cache, and no later step of the
\* handler does anything for it.
IgnoresUnconsidered ==
    [][/\ \A i \in 1..Len(fetches) :
             ~Considered(fetches[i].request) => fetches'[i] = fetches[i]
       /\ Len(fetches') > Len(fetches) =>
             LET f == fetches'[Len(fetches')] IN
             ~Considered(f.request) =>
                /\ f.pc = "done"
                /\ f.response = NoResponse
                /\ f.net = NoResponse
                /\ f.handle = NoHandle
                /\ caches' = caches]_vars

\* Both workers have been handed a request they do not consider: a POST to
\* one, a GET of a chrome-extension: URL to the other.
IgnoresUnconsideredWitness ==
    /\ Len(fetches) = 2
    /\ fetches[1].request = Request("POST", ShellUrl)
    /\ fetches[2].request = Request("GET", ExtensionUrl)
    /\ fetches[1].worker # fetches[2].worker
    /\ \A i \in 1..2 : fetches[i].pc = "done" /\ fetches[i].response = NoResponse

\* C22: a considered request to the font provider's host is answered with
\* network-first, any other request to the worker's own origin with
\* cache-first, and a request to any other origin is not intercepted.
RoutesByHost ==
    \A i \in 1..Len(fetches) :
        LET f == fetches[i] IN
        Considered(f.request) =>
            f.strategy =
                IF Hostname(f.request.url) \in {"fonts.googleapis.com", "fonts.gstatic.com"}
                THEN "networkFirst"
                ELSE IF Origin(f.request.url) = Origin(SW_URL) THEN "cacheFirst"
                ELSE "none"

\* The responses the caches hold for a URL.
Copies(cs, url) == {cs[j].items[url] : j \in {k \in 1..Len(cs) : url \in DOMAIN cs[k].items}}

\* The cache of a worker's version is in the storage under the handle given.
HoldsCache(cs, v, id) == \E j \in 1..Len(cs) : cs[j].name = CACHE_NAME(v) /\ cs[j].id = id

\* C23: networkFirst returns the response of a successful network fetch, also
\* when a copy is cached, and its cache.put stores that response under the
\* request's URL in the cache of the worker's version; when the fetch fails it
\* returns the cached copy of the request - the one in the worker's own cache
\* when there is one - and a 503 response when no cache holds a copy.
NetworkFirstAnswers ==
    [][\A i \in 1..Len(fetches) :
          LET f == fetches[i]
              g == fetches'[i]
              url == f.request.url
          IN  f.strategy = "networkFirst" =>
                /\ (f.pc = "open" /\ g.pc # "open") =>
                        /\ IsOk(f.net)
                        /\ g.response = f.net
                /\ (f.pc = "put" /\ g.pc = "done" /\ HoldsCache(caches, f.worker, f.handle)) =>
                        /\ g.response = f.net
                        /\ url \in DOMAIN Named(caches', CACHE_NAME(f.worker)).items
                        /\ Named(caches', CACHE_NAME(f.worker)).items[url] = f.net
                /\ (f.pc = "match" /\ g.pc = "done") =>
                        /\ f.net = NoResponse
                        /\ IF Copies(caches, url) = {} THEN g.response.status = 503
                           ELSE g.response \in Copies(caches, url)
                        /\ (/\ CACHE_NAME(f.worker) \in Names(caches)
                            /\ url \in DOMAIN Named(caches, CACHE_NAME(f.worker)).items) =>
                                g.response = Named(caches, CACHE_NAME(f.worker)).items[url]]_vars

\* The font stylesheet was fetched and stored, then fetched again and stored
\* with other content while the first copy was cached.
NetworkFirstAnswersWitness ==
    /\ Len(fetches) = 2
    /\ \A i \in 1..2 :
          /\ fetches[i].request = Request("GET", FontUrl)
          /\ fetches[i].worker = "v2"
          /\ fetches[i].pc = "done"
    /\ fetches[1].response = Response("b1", 200)
    /\ fetches[2].response = Response("b2", 200)
    /\ Copies(caches, FontUrl) = {Response("b2", 200)}

\* The font stylesheet was fetched and stored; the next fetch failed and was
\* answered with the stored copy.
NetworkFirstOfflineWitness ==
    /\ Len(fetches) = 2
    /\ \A i \in 1..2 : fetches[i].request = Request("GET", FontUrl) /\ fetches[i].pc = "done"
    /\ fetches[1].net = Response("b2", 200)
    /\ fetches[2].net = NoResponse
    /\ fetches[2].response = Response("b2", 200)

\* C24: cacheFirst on a request some cache holds a response for answers with
\* a cached response of that request as it is stored, asks the network for
\* nothing and leaves every cache as it was.
CacheFirstHit ==
    [][\A i \in 1..Len(fetches) :
          LET f == fetches[i]
              g == fetches'[i]
          IN  (/\ f.strategy = "cacheFirst"
               /\ f.pc = "match"
               /\ g # f
               /\ Copies(caches, f.request.url) # {}) =>
                  /\ g.pc = "done"
                  /\ g.response \in Copies(caches, f.request.url)
                  /\ g.net = NoResponse
                  /\ g.handle = NoHandle
                  /\ caches' = caches]_vars

\* An asset was fetched and stored; asked for again, it was served from the
\* cache.
CacheFirstHitWitness ==
    /\ Len(fetches) = 2
    /\ fetches[1].request = Request("GET", IconUrl)
    /\ fetches[1].net = Response("b2", 200)
    /\ fetches[2].request = Request("GET", IconUrl)
    /\ fetches[2].pc = "done"
    /\ fetches[2].net = NoResponse
    /\ fetches[2].response = Response("b2", 200)

\* The pre-cached shell document was asked for and served from the cache.
CacheFirstShellWitness ==
    /\ Len(fetches) = 1
    /\ fetches[1].request = Request("GET", ShellUrl)
    /\ fetches[1].strategy = "cacheFirst"
    /\ fetches[1].pc = "done"
    /\ fetches[1].net = NoResponse
    /\ fetches[1].response = Precached

\* C25: cacheFirst, after a cache miss and a failed network fetch, answers
\* with the cached index.html when a cache holds it; when none does, with the
\* cached root path when a cache holds that; and with a 503 response only
\* when neither is cached.
FallbackOrder ==
    [][\A i \in 1..Len(fetches) :
          LET f == fetches[i]
              g == fetches'[i]
              shell == Copies(caches, ShellUrl)
              root == Copies(caches, BASE_PATH)
          IN  /\ (f.pc = "fallback" /\ g # f) =>
                    /\ f.strategy = "cacheFirst" /\ f.net = NoResponse
                    /\ IF shell # {} THEN g.pc = "done" /\ g.response \in shell
                       ELSE \/ g.pc = "fallback2"
                            \/ /\ g.pc = "done"
                               /\ IF root # {} THEN g.response \in root
                                  ELSE g.response.status = 503
              /\ (f.pc = "fallback2" /\ g # f) =>
                    /\ g.pc = "done"
                    /\ IF root # {} THEN g.response \in root
                       ELSE g.response.status = 503]_vars

\* C26: every request a fetch handler has called respondWith for is
\* eventually given a response, whatever the network did and the caches held.
AlwaysAnswered ==
    \A k \in 1..MaxFetches :
        [](Len(fetches) >= k /\ fetches[k].strategy # "none"
              => <>(Len(fetches) >= k /\ fetches[k].response # NoResponse))

\* With the network down, a font request was answered with a 503 and an
\* asset request with the cached shell document.
AlwaysAnsweredWitness ==
    /\ Len(fetches) = 2
    /\ \A i \in 1..2 : fetches[i].pc = "done" /\ fetches[i].net = NoResponse
    /\ \E i, j \in 1..2 :
          /\ fetches[i].strategy = "networkFirst"
          /\ fetches[i].response.status = 503
          /\ fetches[j].request = Request("GET", IconUrl)
          /\ fetches[j].response = Precached

\* C27: every stored entry has the createdAt its first save stored, whatever
\* editors opened and saved it since.
CreatedAtSetOnce ==
    \A id \in DOMAIN stores[STORE_ENTRIES] \cap DOMAIN ui.first :
        stores[STORE_ENTRIES][id].createdAt = ui.first[id]

\* C28: no step lowers the createdAt of a record that stays in its store.
CreatedAtNeverDecreases ==
    [][\A s \in StoreNames :
          \A k \in DOMAIN stores[s] \cap DOMAIN stores'[s] :
              stores'[s][k].createdAt >= stores[s][k].createdAt]_vars

\* C29: the latest save of an entry by the application wrote, as updatedAt,
\* the time at which it was made.
UpdatedAtIsSaveTime == ui.last.at # 0 => ui.last.updatedAt = ui.last.at

\* C30: an entry saved by the entry editor or the thinking editor has a
\* projectId that is not null exactly when its mode is 'project'.
ProjectIffMode ==
    \A id \in DOMAIN stores[STORE_ENTRIES] :
        LET e == stores[STORE_ENTRIES][id] IN
        ("projectId" \in DOMAIN e /\ e.projectId # Null) <=> e.mode = "project"

\* An entry captured inside the folder p1 and saved by the entry editor, and
\* a page saved by the thinking editor.
ProjectIffModeWitness ==
    \E a, b \in DOMAIN stores[STORE_ENTRIES] :
        /\ stores[STORE_ENTRIES][a].mode = "project"
        /\ stores[STORE_ENTRIES][a].projectId = "p1"
        /\ stores[STORE_ENTRIES][b].mode = "thinking"
        /\ "projectId" \notin DOMAIN stores[STORE_ENTRIES][b]
        /\ ui.last.at = 2

\* deleteProject(p) has read the projectId index and its delete transaction
\* has not started (it is not created yet, or has executed no request); the
\* entry E2p that saveEntry of caller q wrote is committed, belongs to the
\* project, and was in the store neither when the save was issued nor when
\* the index was read.
SavedInTheGap(p, q) ==
    /\ call[p].op = "deleteProject"
    /\ call[p].pc = "run"
    /\ call[p].phase = 2
    /\ \A i \in 1..Len(txs) : txs[i].owner = p => txs[i].n = 0
    /\ call[q].op = "saveEntry"
    /\ call[q].arg = E2p
    /\ E2p.projectId = call[p].arg
    /\ E2p.id \notin DOMAIN call[q].pre[STORE_ENTRIES]
    /\ \A i \in 1..Len(call[p].ents) : call[p].ents[i].id # E2p.id
    /\ E2p.id \in DOMAIN stores[STORE_ENTRIES]
    /\ stores[STORE_ENTRIES][E2p.id] = E2p

\* deleteProject of caller p has resolved leaving E2p in the store and its
\* project out of it.
NotSwept(p) ==
    call[p].op = "deleteProject" /\ call[p].out = "resolved" =>
        /\ E2p.id \in DOMAIN stores[STORE_ENTRIES]
        /\ stores[STORE_ENTRIES][E2p.id] = E2p
        /\ call[p].arg \notin DOMAIN stores[STORE_PROJECTS]

\* C31: a new entry of project p that saveEntry commits after deleteProject(p)
\* has read the projectId index and before its delete transaction starts
\* is not swept: once deleteProject(p) has resolved, the entry is in the store
\* and project p is not.
CascadeGap ==
    /\ [](SavedInTheGap("a", "b") => []NotSwept("a"))
    /\ [](SavedInTheGap("b", "a") => []NotSwept("b"))

CascadeGapWitness ==
    \E p \in Procs, q \in Procs :
        /\ SavedInTheGap(p, q)
        /\ call[q].out = "resolved"

\* C35: what exportData resolves with is the contents of both stores at one
\* moment of the export: the entries and the projects of the contents when the
\* export was issued, or of the contents after the one write the other caller
\* committed since.  (Stated for runs where no call is rejected and no
\* engine failure occurs.)
ExportIsSnapshot ==
    \A p \in Procs :
        /\ call[p].op = "exportData"
        /\ call[p].out = "resolved"
        /\ faults = 0
        /\ \A q \in Procs : call[q].out # "rejected"
        => \E db \in {call[p].pre, stores} :
                /\ call[p].res.val.entries = AllEntriesOf(db)
                /\ call[p].res.val.projects = AllProjectsOf(db)

\* C36: the step in which deleteProject(p) resolves (its delete transaction
\* commits) removes only entries that belong to p in the contents the
\* transaction ran on: an entry re-saved with another projectId, or with
\* none, before the delete transaction started stays.
CascadeOnlyOwn ==
    [][\A p \in Procs, k \in EntryIds :
          /\ call[p].op = "deleteProject"
          /\ call[p].out # "resolved"
          /\ call'[p].out = "resolved"
          /\ k \in DOMAIN stores[STORE_ENTRIES]
          /\ k \notin DOMAIN stores'[STORE_ENTRIES]
          => /\ "projectId" \in DOMAIN stores[STORE_ENTRIES][k]
             /\ stores[STORE_ENTRIES][k].projectId = call[p].arg]_vars

\* C37: when two seedDefaultProjects calls, both issued on a store with zero
\* projects, have resolved and their writes are through, the store holds
\* exactly the five default folders.  (Stated for runs without engine
\* failure.)
TwoSeedsFive ==
    /\ \A p \in Procs : SeedDone(p) /\ DOMAIN call[p].pre[STORE_PROJECTS] = {}
    /\ faults = 0
    => FiveDefaults(stores[STORE_PROJECTS])

\* C32: cacheFirst stores the ok response it fetched before it returns it: a
\* cacheFirst of the same worker for a request that an earlier cacheFirst
\* fetched with an ok response, and has returned, is a hit (it answers from a
\* cache and fetches nothing); and a response that is not ok is returned as
\* it is, with no cache changed.
StoredBeforeReturned ==
    [][\A i \in 1..Len(fetches) :
          LET f == fetches[i]
              g == fetches'[i]
          IN  f.strategy = "cacheFirst" =>
                /\ (/\ f.pc = "match"
                    /\ g # f
                    /\ \E j \in 1..(i - 1) :
                          /\ fetches[j].strategy = "cacheFirst"
                          /\ fetches[j].worker = f.worker
                          /\ fetches[j].request = f.request
                          /\ IsOk(fetches[j].net)
                          /\ fetches[j].response = fetches[j].net) =>
                        /\ g.pc = "done"
                        /\ g.response \in Copies(caches, f.request.url)
                /\ (f.pc = "fetch" /\ g.net \in NetworkError) =>
                        /\ g.pc = "done"
                        /\ g.response = g.net
                        /\ caches' = caches]_vars

\* C33: when the activate handler of a version claims the clients, every
\* cache it found under another name has been deleted, and no cache with
\* another version's name exists.
ClaimAfterDeletions ==
    [][\A v \in Versions :
          sw[v].state = "activating" /\ sw'[v].state = "activated" =>
            /\ sw'[v].claimed
            /\ \A c \in sw[v].seen : c.name # CACHE_NAME(v) => c.id \notin CacheIds(caches)
            /\ \A w \in Versions \ {v} : CACHE_NAME(w) \notin Names(caches)]_vars

\* C38: once a version is activated, no cache named for a version it
\* superseded exists, whatever the handlers of the superseded worker that
\* were in flight do afterwards.
NoOldCacheAfterActivation ==
    \A v \in Versions, w \in Versions :
        sw[v].state = "activated" /\ sw[w].state = "redundant" =>
            CACHE_NAME(w) \notin Names(caches)

\* C34: saving the sheet that was opened on an existing entry writes the
\* record of that id with the mode it had: no record is added, and no other
\* record changes.
EditKeepsIdAndMode ==
    [][(ui.sheet /\ ~ui'.sheet /\ ui._state.id \in DOMAIN stores[STORE_ENTRIES]) =>
          /\ DOMAIN stores'[STORE_ENTRIES] = DOMAIN stores[STORE_ENTRIES]
          /\ \A id \in DOMAIN stores[STORE_ENTRIES] :
                IF id = ui._state.id
                THEN stores'[STORE_ENTRIES][id].mode = stores[STORE_ENTRIES][id].mode
                ELSE stores'[STORE_ENTRIES][id] = stores[STORE_ENTRIES][id]]_vars

\* An entry of a folder, first saved at time 1, was opened and saved again at
\* time 2, next to another entry.
EditKeepsIdAndModeWitness ==
    /\ ~ui.sheet
    /\ Cardinality(DOMAIN stores[STORE_ENTRIES]) = 2
    /\ \E id \in DOMAIN stores[STORE_ENTRIES] :
          /\ stores[STORE_ENTRIES][id].mode = "project"
          /\ ui.first[id] = 1
          /\ stores[STORE_ENTRIES][id].updatedAt = 2
          /\ ui.last = [at |-> 2, updatedAt |-> 2]

\* C39: the sheet quick capture opens for a new entry carries project p only
\* when the projects view is shown on the detail view of p; from the folder
\* grid and from every other view it carries no project.  (UIEntry.save
\* writes the projectId of the sheet.)
CaptureOnlyInDetail ==
    [][(~ui.sheet /\ ui'.sheet /\ ui'._state.id \notin DOMAIN stores[STORE_ENTRIES]) =>
          ui'._state.projectId =
             IF ui.currentView = "projects" /\ ui.detail THEN ui._currentProjectId
             ELSE Null]_vars

====
